---- MODULE Spec2Model ----
(***************************************************************************)
(* Model of the disk-backed expiry cache of satinv (package cacher).       *)
(* One Cache instance operating on one cache directory: the registry       *)
(* (content), the force-refresh and dirty flags, the content files and the *)
(* persisted expiry table (expire.json).                                   *)
(***************************************************************************)
EXTENDS Integers, Sequences, FiniteSets, TLC

VARIABLES
    content,       \* c.content: the registry, key -> Item
    cacheRefresh,  \* c.cacheRefresh: the force-refresh flag
    writeExpiry,   \* c.writeExpiry: the dirty flag
    apiInit,       \* c.apiInit
    fs,            \* the content files of the cache directory, path -> bytes
    table,         \* expire.json
    now,           \* time.Now().Unix()
    running,       \* the process has not exited yet
    registered,    \* history: the keys given to AddURL / AddFile in this run
    forced,        \* history: SetRefresh has been called in this run
    freshUntil,    \* history: t + validity of the latest refresh GetURL made of a key
    boot,          \* history: what NewCacher found and left when this run began
    pc,            \* where the batch run stands in mkInventory
    tableReads,    \* history: reads of expire.json by this process
    tableWrites,   \* history: writes of expire.json by this process
    dirExists,     \* the cache directory exists
    args,          \* the arguments of a call of a function of the other packages
    result,        \* what that call returned
    peer,          \* a second run on the same cache directory: its own Cache
    exports        \* history: the runs that wrote expire.json, in order

\* the run and its cache directory
runVars == <<pc, tableReads, tableWrites, dirExists>>
\* a call of ParseFlags, ParseCIDRs or hgValid
callVars == <<args, result>>
\* a second process on the same directory
peerVars == <<peer, exports>>

vars == <<content, cacheRefresh, writeExpiry, apiInit, fs, table, now,
          running, registered, forced, freshUntil, boot,
          pc, tableReads, tableWrites, dirExists, args, result, peer, exports>>

----------------------------------------------------------------------------
(* Bounds of the model *)

\* number of clock ticks (seconds) a run is followed for
MaxTick == 1
\* largest validity period (seconds) given at a registration
MaxValidity == 1

(* Program constants *)

\* 7 * 24 * 60 * 60, the retention horizon of importExpiry
Horizon == 7 * 24 * 60 * 60

\* time.Now().Unix() when the cache is constructed
StartTime == Horizon + 2

Keys == {"a", "b"}
Names == {"f1", "f2"}
Validities == {0, MaxValidity}

\* the registrations the run may make: key "a" under one file name with no
\* validity or the longest, key "b" under another with the longest validity

Registrations ==
    {<<"a", "f1", v>> : v \in Validities} \cup {<<"b", "f2", MaxValidity>>}
\* the registrations a run makes with AddURL: "b" is the inventory file
URLRegistrations == {r \in Registrations : r[1] = "a"}

Times == StartTime..(StartTime + MaxTick)

cacheDir == "dir"

\* path.Join(c.cacheDir, fileName)
JoinPath(dir, name) == dir \o "/" \o name

Paths == {JoinPath(cacheDir, n) : n \in Names}

\* the zero value of Item that a failed map lookup yields
ZeroItem == [url |-> FALSE, expiry |-> 0, file |-> "", validity |-> 0]

(* Bytes of a content file.  "c1" is a compact JSON document, "p1" the same
   document as json.MarshalIndent prints it, "bad" is not JSON at all and
   "null" is the JSON text null. *)
FetchBodies == {"c1", "bad"}
CallerBodies == {"p1"}
FetchFail == "fetch-failed"
FetchOutcomes == FetchBodies \cup {FetchFail}

\* states of a path that holds no readable bytes
Missing == "<missing>"
Locked == "<locked>"

\* error values
Nil == "nil"
errNoItem == "errNoItem"
errAPIInit == "errAPIInit"
errIsFile == "requested URL is a file"
errIsURL == "requested file is a URL"
errFetch == "unable to parse"
errWrite == "unable to read JSON"
errRead == "read error"

\* "no refresh by GetURL recorded" in freshUntil
None == 0 - 1

----------------------------------------------------------------------------
(* The file system *)

\* os.Stat(p) does not report IsNotExist
FileExists(p) == p \in DOMAIN fs /\ fs[p] # Missing

\* os.ReadFile(p) succeeds
FileReadable(p) == FileExists(p) /\ fs[p] # Locked

\* os.WriteFile(p, ...) succeeds: the path lies in the cache directory and
\* the file, if it exists, can be opened for writing
FileWritable(p) == p \in DOMAIN fs /\ fs[p] # Locked

(* gjson.ParseBytes: the Raw text of the Result.  Anything that does not
   start a JSON value gives the empty Result. *)
ParseBytes(b) == IF b = "bad" THEN "" ELSE b

(* json.MarshalIndent(gj.Value(), "", "  "): the document re-printed with
   indentation; the empty Result and null have the value nil. *)
\* a serialisation that loses the value
MarshalIndentNull(raw) == "null"

MarshalIndent(raw) ==

    CASE raw = "c1" -> "p1"
      [] raw = "p1" -> "p1"
      [] OTHER -> "null"

----------------------------------------------------------------------------
(* The registry *)

\* make(map[string]Item)
EmptyRegistry == [x \in {} |-> ZeroItem]

getItem(k) ==
    IF k \in DOMAIN content
    THEN [item |-> content[k], err |-> Nil]
    ELSE [item |-> ZeroItem, err |-> errNoItem]

\* c.content[itemKey] = item
PutItem(c, k, item) ==
    [x \in DOMAIN c \cup {k} |-> IF x = k THEN item ELSE c[x]]

\* Expired with the item already stale at the second it expires
ExpiredGE(item, force, exists, t) ==
    IF force THEN TRUE
    ELSE IF ~exists THEN TRUE
    ELSE IF t >= item.expiry THEN TRUE
    ELSE FALSE

\* Expired without the force-refresh branch
ExpiredNoForce(item, force, exists, t) ==
    IF ~exists THEN TRUE
    ELSE IF t > item.expiry THEN TRUE
    ELSE FALSE

\* Expired without the os.Stat branch
ExpiredNoStat(item, force, exists, t) ==
    IF force THEN TRUE
    ELSE IF t > item.expiry THEN TRUE
    ELSE FALSE

(* The decision of HasExpired for an item at time t *)
Expired(item, force, exists, t) ==
    IF force THEN TRUE
    ELSE IF ~exists THEN TRUE
    ELSE IF t > item.expiry THEN TRUE
    ELSE FALSE

HasExpiredOp(k) ==
    LET g == getItem(k) IN
    IF g.err # Nil THEN [refresh |-> FALSE, err |-> g.err]
    ELSE [refresh |-> Expired(g.item, cacheRefresh, FileExists(g.item.file), now),
          err |-> Nil]

\* HasExpired that uses up the force flag on the item it reports
HasExpiredPostClearForce(k) ==
    [content |-> content,
     cacheRefresh |-> IF k \in DOMAIN content THEN FALSE ELSE cacheRefresh,
     writeExpiry |-> writeExpiry, fs |-> fs]

\* the cache and the files after HasExpired(k): it assigns to its results only
\* and os.Stat is the one call it makes on the file
HasExpiredPost(k) ==
    [content |-> content, cacheRefresh |-> cacheRefresh,
     writeExpiry |-> writeExpiry, fs |-> fs]

\* ResetItem that extends the old expiry instead of starting from the clock
ResetItemExtend(item, t) == [item EXCEPT !.expiry = item.expiry + item.validity]

\* ResetItem that forgets the validity period
ResetItemNoValidity(item, t) == [item EXCEPT !.expiry = t]

\* the item ResetExpire stores
ResetItem(item, t) == [item EXCEPT !.expiry = t + item.validity]

\* RegisterItem that zeroes the expiry of a known key as well
RegisterItemReset(c, k, isURL, name, validity) ==
    [url |-> isURL, expiry |-> 0, file |-> JoinPath(cacheDir, name),
     validity |-> validity]

\* RegisterItem that stamps a new key as fresh for its validity period
RegisterItemStamped(c, k, isURL, name, validity) ==
    LET old == IF k \in DOMAIN c THEN c[k] ELSE ZeroItem
    IN [url |-> isURL,
        expiry |-> IF k \in DOMAIN c THEN old.expiry ELSE now + validity,
        file |-> JoinPath(cacheDir, name), validity |-> validity]

\* the item AddURL / AddFile store
RegisterItem(c, k, isURL, name, validity) ==
    LET old == IF k \in DOMAIN c THEN c[k] ELSE ZeroItem
        set == [old EXCEPT !.url = isURL, !.validity = validity,
                           !.file = JoinPath(cacheDir, name)]
    IN IF k \in DOMAIN c THEN set ELSE [set EXCEPT !.expiry = 0]

\* addItem on the registry c
addItem(c, k, expireEpoch, isURL) ==
    LET old == IF k \in DOMAIN c THEN c[k] ELSE ZeroItem
    IN PutItem(c, k, [old EXCEPT !.expiry = expireEpoch, !.url = isURL])

(* importExpiry at time t: the entries of the table younger than the horizon *)
RECURSIVE ImportEntries(_, _, _, _)
ImportEntries(c, tbl, ks, ageLimit) ==
    IF ks = {} THEN c
    ELSE LET k == CHOOSE x \in ks : TRUE
             c2 == IF tbl[k].expiry > ageLimit
                   THEN addItem(c, k, tbl[k].expiry, tbl[k].url)
                   ELSE c
         IN ImportEntries(c2, tbl, ks \ {k}, ageLimit)

(* expire.json: whether the file exists, whether os.ReadFile can read it,
   whether its bytes are the JSON WriteExpiryFile wrote, and the expiry and
   section of each key gjson finds in it *)
TableOf(entries) ==
    [exists |-> TRUE, readable |-> TRUE, json |-> TRUE, entries |-> entries]
NoEntries == [x \in {} |-> [url |-> FALSE, expiry |-> 0]]
NoTable == [exists |-> FALSE, readable |-> FALSE, json |-> FALSE, entries |-> NoEntries]
\* a table that cannot be read (permissions)
UnreadableTable(entries) == [TableOf(entries) EXCEPT !.readable = FALSE]
\* a table whose bytes are not valid JSON; entries are what gjson still finds
CorruptTable(entries) == [TableOf(entries) EXCEPT !.json = FALSE]

\* importExpiry that stops the process on a missing table as well
importFatalOnMissing(tbl) == ~tbl.exists \/ ~tbl.readable

\* importExpiry ends in log.Fatalf: the read failed and not with ErrNotExist
importFatal(tbl) == tbl.exists /\ ~tbl.readable

\* importExpiry that also keeps the entry whose expiry is exactly the age limit
importExpiryInclusive(tbl, t) ==
    IF ~tbl.exists \/ ~tbl.readable THEN EmptyRegistry
    ELSE ImportEntries(EmptyRegistry, tbl.entries, DOMAIN tbl.entries,
                       t - Horizon - 1)

importExpiry(tbl, t) ==
    IF ~tbl.exists \/ ~tbl.readable THEN EmptyRegistry

    ELSE ImportEntries(EmptyRegistry, tbl.entries, DOMAIN tbl.entries, t - Horizon)

\* expireMapURLs that takes every item of the registry
ExportURLsAll(c) == [k \in DOMAIN c |-> c[k].expiry]

\* expireMapURLs and expireMapFiles of WriteExpiryFile
ExportURLs(c) == [k \in {x \in DOMAIN c : c[x].url} |-> c[k].expiry]

ExportFiles(c) == [k \in {x \in DOMAIN c : ~c[x].url} |-> c[k].expiry]

\* the JSON document WriteExpiryFile writes at time t
ExpiryDocument(c, t) ==
    [write_time |-> t, urls |-> ExportURLs(c), files |-> ExportFiles(c)]

\* the table importExpiry finds in a document: it reads "urls", then "files",
\* and never the write_time
DocumentTable(d) ==
    TableOf([k \in DOMAIN d.urls \cup DOMAIN d.files |->
                IF k \in DOMAIN d.files
                THEN [url |-> FALSE, expiry |-> d.files[k]]
                ELSE [url |-> TRUE, expiry |-> d.urls[k]]])

\* WriteExpiryFile that stores the validity period in place of the expiry
ExportTableValidity(c) ==

    TableOf([k \in DOMAIN c |-> [url |-> c[k].url, expiry |-> c[k].validity]])

\* the table WriteExpiryFile leaves for the next importExpiry
ExportTable(c) == DocumentTable(ExpiryDocument(c, now))

----------------------------------------------------------------------------
(* Initial state: NewCacher on a cache directory *)

\* expiries a table left by an earlier run may hold for a key
PersistedExpiries == {StartTime - Horizon, StartTime - Horizon + 1, StartTime + 1}

\* an entry inside the horizon
KeptEntry == [k \in {"a"} |-> [url |-> TRUE, expiry |-> StartTime + 1]]

\* entries outside the horizon: one exactly at the age limit, one never refreshed
DroppedEntries ==
    [k \in Keys |-> IF k = "a" THEN [url |-> TRUE, expiry |-> StartTime - Horizon]
                    ELSE [url |-> FALSE, expiry |-> 0]]

InitTables ==
    {NoTable, TableOf(DroppedEntries)} \cup
    {TableOf([k \in {"a"} |-> [url |-> TRUE, expiry |-> e]]) :
        e \in PersistedExpiries \ {StartTime - Horizon}} \cup
    {TableOf([k \in {"a"} |-> [url |-> FALSE, expiry |-> StartTime - Horizon + 1]])} \cup
    {UnreadableTable(KeptEntry), CorruptTable(KeptEntry)}


\* what NewCacher found and left
\* no function of the other packages is called
NoCall == [fn |-> "none"]

\* no second run
NoPeer == [phase |-> "none"]

(* what NewCacher found and left: the table, the time, the registry imported,
   whether the import stopped the process and, when a run of the program on
   this directory went before, the registry of that run when it ended and
   whether it ended with an expiry update unwritten *)
BootRecord(tbl, t, prev, prevDirty, restarted) ==
    [table |-> tbl, time |-> t, content |-> importExpiry(tbl, t),
     fatal |-> importFatal(tbl), prev |-> prev, prevDirty |-> prevDirty,
     restarted |-> restarted]

Init ==
    /\ table \in InitTables
    /\ now = StartTime
    /\ content = importExpiry(table, now)
    /\ cacheRefresh = FALSE
    /\ writeExpiry = FALSE
    /\ apiInit = FALSE
    /\ fs \in [Paths -> {Missing} \cup CallerBodies]
    /\ running = ~importFatal(table)
    /\ boot = BootRecord(table, now, EmptyRegistry, FALSE, FALSE)
    /\ pc = "free"
    /\ tableReads = 1
    /\ tableWrites = 0
    /\ dirExists = TRUE
    /\ peer = NoPeer
    /\ exports = <<>>
    /\ args = NoCall
    /\ result = NoCall
    /\ registered = {}
    /\ forced = FALSE
    /\ freshUntil = [k \in Keys |-> None]

----------------------------------------------------------------------------
(* What each operation of Cache returns and leaves behind, as a function of
   the state it is called in *)

GetFilenameOp(k) ==
    LET g == getItem(k) IN
    IF g.err # Nil THEN [out |-> "", err |-> g.err]
    ELSE [out |-> g.item.file, err |-> Nil]

\* ret holds the values the function returns: the error and nothing else
ResetExpireOp(k) ==
    LET g == getItem(k) IN
    IF g.err # Nil
    THEN [content |-> content, writeExpiry |-> writeExpiry, err |-> g.err,
          ret |-> [err |-> g.err]]
    ELSE [content |-> PutItem(content, k, ResetItem(g.item, now)),
          writeExpiry |-> TRUE, err |-> Nil, ret |-> [err |-> Nil]]

AddURLOp(k, name, validity) ==
    PutItem(content, k, RegisterItem(content, k, TRUE, name, validity))

AddFileOp(k, name, validity) ==
    PutItem(content, k, RegisterItem(content, k, FALSE, name, validity))

\* a kind test that lets every item through
KindMismatchNever(item, wantURL) == FALSE

\* GetURL is exclusively for URLs, GetFile for files
KindMismatch(item, wantURL) == item.url # wantURL

\* getURLFromAPI that stamps the expiry before it tests the API and fetches
getURLFromAPIEager(k, f) ==
    LET item == IF k \in DOMAIN content THEN content[k] ELSE ZeroItem
        gj == ParseBytes(f)
        re == ResetExpireOp(k)
        stamped == [content |-> re.content, fs |-> fs, writeExpiry |-> re.writeExpiry]
    IN IF ~apiInit
       THEN stamped @@ [err |-> errAPIInit, out |-> "", fetches |-> 0]
       ELSE IF f = FetchFail
       THEN stamped @@ [err |-> errFetch, out |-> "", fetches |-> 1]
       ELSE IF ~FileWritable(item.file)
       THEN stamped @@ [err |-> errWrite, out |-> gj, fetches |-> 1]
       ELSE [content |-> re.content,
             fs |-> [fs EXCEPT ![item.file] = MarshalIndent(gj)],
             writeExpiry |-> re.writeExpiry,
             err |-> Nil, out |-> gj, fetches |-> 1]

(* getURLFromAPI: f is what c.api.GetJSON answers, a body or a failure *)
getURLFromAPI(k, f) ==

    LET same == [content |-> content, fs |-> fs, writeExpiry |-> writeExpiry]
        item == IF k \in DOMAIN content THEN content[k] ELSE ZeroItem
        gj == ParseBytes(f)
        re == ResetExpireOp(k)
    IN IF ~apiInit
       THEN same @@ [err |-> errAPIInit, out |-> "", fetches |-> 0]
       ELSE IF f = FetchFail
       THEN same @@ [err |-> errFetch, out |-> "", fetches |-> 1]
       ELSE IF k \notin DOMAIN content
       THEN same @@ [err |-> errNoItem, out |-> gj, fetches |-> 1]
       ELSE IF ~FileWritable(item.file)
       THEN same @@ [err |-> errWrite, out |-> gj, fetches |-> 1]
       ELSE [content |-> re.content,
             fs |-> [fs EXCEPT ![item.file] = MarshalIndent(gj)],
             writeExpiry |-> re.writeExpiry,
             err |-> Nil, out |-> gj, fetches |-> 1]

\* GetURL that hands the failure of the read back to its caller
GetURLOpReadError(k, f) ==
    LET same == [content |-> content, fs |-> fs, writeExpiry |-> writeExpiry]
        g == getItem(k)
        h == HasExpiredOp(k)
    IN IF g.err # Nil
       THEN same @@ [err |-> g.err, out |-> "", fetches |-> 0]
       ELSE IF KindMismatch(g.item, TRUE)
       THEN same @@ [err |-> errIsFile, out |-> "", fetches |-> 0]
       ELSE IF h.refresh
       THEN getURLFromAPI(k, f)
       ELSE IF FileReadable(g.item.file)
       THEN same @@ [err |-> Nil, out |-> ParseBytes(fs[g.item.file]), fetches |-> 0]
       ELSE same @@ [err |-> errRead, out |-> "", fetches |-> 0]

\* GetURL that asks the fetcher a second time when the first fetch fails
GetURLOpRetry(k, f) ==
    LET r == GetURLOpReadError(k, f)
        again == getURLFromAPI(k, f)
    IN IF r.err = errRead THEN again
       ELSE IF r.err = errFetch THEN [again EXCEPT !.fetches = r.fetches + 1]
       ELSE r

GetURLOp(k, f) ==
    LET same ==
 [content |-> content, fs |-> fs, writeExpiry |-> writeExpiry]
        g == getItem(k)
        h == HasExpiredOp(k)
    IN IF g.err # Nil
       THEN same @@ [err |-> g.err, out |-> "", fetches |-> 0]
       ELSE IF KindMismatch(g.item, TRUE)
       THEN same @@ [err |-> errIsFile, out |-> "", fetches |-> 0]
       ELSE IF h.err # Nil
       THEN same @@ [err |-> h.err, out |-> "", fetches |-> 0]
       ELSE IF h.refresh
       THEN getURLFromAPI(k, f)
       ELSE IF FileReadable(g.item.file)
       THEN same @@ [err |-> Nil, out |-> ParseBytes(fs[g.item.file]), fetches |-> 0]
       ELSE getURLFromAPI(k, f)

(* GetURL of an item HasExpired found fresh whose file another process removes
   between the os.Stat of HasExpired and the os.ReadFile of jsonFromFile: the
   read fails and getURLFromAPI runs on a directory without the file *)
GetURLVanishOp(k, f) ==
    LET r == getURLFromAPI(k, f)
        gone == [fs EXCEPT ![content[k].file] = Missing]
    IN IF r.err = Nil THEN r ELSE [r EXCEPT !.fs = gone]

\* GetFile that refuses an item HasExpired reports expired
GetFileOpFreshOnly(k) ==
    LET g == getItem(k) IN
    IF g.err # Nil THEN [err |-> g.err, out |-> ""]
    ELSE IF KindMismatch(g.item, FALSE) THEN [err |-> errIsURL, out |-> ""]
    ELSE IF HasExpiredOp(k).refresh THEN [err |-> errRead, out |-> ""]
    ELSE [err |-> Nil, out |-> fs[g.item.file]]

GetFileOp(k) ==
    LET g == getItem(k) IN

    IF g.err # Nil THEN [err |-> g.err, out |-> ""]
    ELSE IF KindMismatch(g.item, FALSE) THEN [err |-> errIsURL, out |-> ""]
    ELSE IF ~FileReadable(g.item.file) THEN [err |-> errRead, out |-> ""]
    ELSE [err |-> Nil, out |-> fs[g.item.file]]

\* WriteExpiryFile that writes the table whether or not an expiry changed
WriteExpiryFileOpAlways(wok) ==
    IF ~wok
    THEN [table |-> table, writeExpiry |-> writeExpiry, err |-> errWrite,
          written |-> FALSE, content |-> content]
    ELSE [table |-> ExportTable(content), writeExpiry |-> FALSE, err |-> Nil,
          written |-> TRUE, doc |-> ExpiryDocument(content, now),
          content |-> content]

\* WriteExpiryFile that gives up after a failed write: the dirty flag is cleared
WriteExpiryFileOpGiveUp(wok) ==
    IF ~writeExpiry
    THEN [table |-> table, writeExpiry |-> writeExpiry, err |-> Nil,
          written |-> FALSE, content |-> content]
    ELSE IF ~wok
    THEN [table |-> table, writeExpiry |-> FALSE, err |-> errWrite,
          written |-> FALSE, content |-> content]
    ELSE [table |-> ExportTable(content), writeExpiry |-> FALSE, err |-> Nil,
          written |-> TRUE, doc |-> ExpiryDocument(content, now),
          content |-> content]

(* WriteExpiryFile; wok tells whether os.WriteFile of expire.json succeeds;
   doc is the document it writes *)
WriteExpiryFileOp(wok) ==

    IF ~writeExpiry
    THEN [table |-> table, writeExpiry |-> writeExpiry, err |-> Nil,
          written |-> FALSE, content |-> content]
    ELSE IF ~wok
    THEN [table |-> table, writeExpiry |-> writeExpiry, err |-> errWrite,
          written |-> FALSE, content |-> content]
    ELSE [table |-> ExportTable(content), writeExpiry |-> FALSE, err |-> Nil,
          written |-> TRUE, doc |-> ExpiryDocument(content, now),
          content |-> content]

----------------------------------------------------------------------------
(* The operations *)


\* a second passes
Tick ==
    /\ running
    /\ now < StartTime + MaxTick
    /\ now' = now + 1
    /\ UNCHANGED <<content, cacheRefresh, writeExpiry, apiInit, fs, table,
                   running, registered, forced, freshUntil, boot, runVars, callVars, peerVars>>

SetRefresh ==
    /\ running
    /\ cacheRefresh' = TRUE
    /\ forced' = TRUE
    /\ UNCHANGED <<content, writeExpiry, apiInit, fs, table, now,
                   running, registered, freshUntil, boot, runVars, callVars, peerVars>>

InitAPI ==
    /\ running
    /\ apiInit' = TRUE
    /\ UNCHANGED <<content, cacheRefresh, writeExpiry, fs, table, now,
                   running, registered, forced, freshUntil, boot, runVars, callVars, peerVars>>

AddURL(k, name, validity) ==
    /\ running
    /\ content' = AddURLOp(k, name, validity)
    /\ registered' = registered \cup {k}
    /\ UNCHANGED <<cacheRefresh, writeExpiry, apiInit, fs, table, now, running,
                   forced, freshUntil, boot, runVars, callVars, peerVars>>

AddFile(k, name, validity) ==
    /\ running
    /\ content' = AddFileOp(k, name, validity)
    /\ registered' = registered \cup {k}
    /\ freshUntil' = [freshUntil EXCEPT ![k] = None]
    /\ UNCHANGED <<cacheRefresh, writeExpiry, apiInit, fs, table, now, running,
                   forced, boot, runVars, callVars, peerVars>>

\* the three pure queries change nothing; what they return is HasExpiredOp,
\* GetFilenameOp and GetFileOp of the state they are called in
HasExpired(k) ==
    /\ running
    /\ HasExpiredOp(k).err \in {Nil, errNoItem}
    /\ content' = HasExpiredPost(k).content
    /\ cacheRefresh' = HasExpiredPost(k).cacheRefresh
    /\ writeExpiry' = HasExpiredPost(k).writeExpiry
    /\ fs' = HasExpiredPost(k).fs
    /\ UNCHANGED <<apiInit, table, now, running, registered, forced, freshUntil,
                   boot, runVars, callVars, peerVars>>


GetFilename(k) ==
    /\ running
    /\ GetFilenameOp(k).err \in {Nil, errNoItem}
    /\ UNCHANGED vars

GetFile(k) ==
    /\ running
    /\ GetFileOp(k).err \in {Nil, errNoItem, errIsURL, errRead}
    /\ UNCHANGED vars

ResetExpire(k) ==
    LET r == ResetExpireOp(k) IN
    /\ running
    /\ content' = r.content
    /\ writeExpiry' = r.writeExpiry
    /\ freshUntil' = [freshUntil EXCEPT ![k] = None]
    /\ UNCHANGED <<cacheRefresh, apiInit, fs, table, now, running, registered,
                   forced, boot, runVars, callVars, peerVars>>

\* GetURL that writes the table through as soon as it has refreshed the item
GetURLWriteThrough(k, f) ==
    LET r == GetURLOp(k, f) IN
    /\ running
    /\ content' = r.content
    /\ fs' = r.fs
    /\ writeExpiry' = r.writeExpiry
    /\ table' = IF r.err = Nil /\ r.fetches > 0 THEN ExportTable(r.content)
                ELSE table
    /\ freshUntil' = IF r.err = Nil /\ r.fetches > 0
                     THEN [freshUntil EXCEPT ![k] = now + content[k].validity]
                     ELSE freshUntil
    /\ UNCHANGED <<cacheRefresh, apiInit, now, running, registered, forced,
                   boot, runVars, callVars, peerVars>>

GetURL(k, f) ==
    LET r == GetURLOp(k, f) IN

    /\ running
    /\ content' = r.content
    /\ fs' = r.fs
    /\ writeExpiry' = r.writeExpiry
    /\ freshUntil' = IF r.err = Nil /\ r.fetches > 0
                     THEN [freshUntil EXCEPT ![k] = now + content[k].validity]
                     ELSE freshUntil
    /\ UNCHANGED <<cacheRefresh, apiInit, table, now, running, registered, forced,
                   boot, runVars, callVars, peerVars>>

\* GetURL whose file vanishes between the expiry check and the read
GetURLVanish(k, f) ==
    LET r == GetURLVanishOp(k, f) IN
    /\ running
    /\ k \in DOMAIN content
    /\ ~KindMismatch(content[k], TRUE)
    /\ ~HasExpiredOp(k).refresh
    /\ content' = r.content
    /\ fs' = r.fs
    /\ writeExpiry' = r.writeExpiry
    /\ freshUntil' = IF r.err = Nil
                     THEN [freshUntil EXCEPT ![k] = now + content[k].validity]
                     ELSE freshUntil
    /\ UNCHANGED <<cacheRefresh, apiInit, table, now, running, registered, forced,
                   boot, runVars, callVars, peerVars>>

\* the process exits once the table is written (mkInventory)
WriteExpiryFile(wok) ==
    LET r == WriteExpiryFileOp(wok) IN
    /\ running
    /\ table' = r.table
    /\ writeExpiry' = r.writeExpiry
    /\ running' = ~r.written
    /\ tableWrites' = IF r.written THEN tableWrites + 1 ELSE tableWrites
    /\ content' = r.content
    /\ UNCHANGED <<cacheRefresh, apiInit, fs, now, registered, forced,
                   freshUntil, boot, pc, tableReads,
                   dirExists, callVars, peerVars>>

----------------------------------------------------------------------------
(* What happens to the content files outside the cache *)

\* a content file is deleted
RemoveFile(p) ==
    /\ running
    /\ FileExists(p)
    /\ fs' = [fs EXCEPT ![p] = Missing]
    /\ UNCHANGED <<content, cacheRefresh, writeExpiry, apiInit, table, now,
                   running, registered, forced, freshUntil, boot, runVars, callVars, peerVars>>

\* the caller writes a content file itself (os.WriteFile in refreshInventory)
CallerWrite(p, b) ==
    /\ running
    /\ FileWritable(p)
    /\ fs' = [fs EXCEPT ![p] = b]
    /\ UNCHANGED <<content, cacheRefresh, writeExpiry, apiInit, table, now,
                   running, registered, forced, freshUntil, boot, runVars, callVars, peerVars>>

\* a content file loses its permissions: it exists but cannot be opened
LockFile(p) ==
    /\ running
    /\ FileReadable(p)
    /\ fs' = [fs EXCEPT ![p] = Locked]
    /\ UNCHANGED <<content, cacheRefresh, writeExpiry, apiInit, table, now,
                   running, registered, forced, freshUntil, boot, runVars, callVars, peerVars>>

----------------------------------------------------------------------------
Next ==
    \/ Tick
    \/ SetRefresh
    \/ InitAPI
    \/ \E r \in URLRegistrations : AddURL(r[1], r[2], r[3])
    \/ \E r \in Registrations : AddFile(r[1], r[2], r[3])
    \/ \E k \in Keys : HasExpired(k)
    \/ \E k \in Keys : GetFilename(k)
    \/ \E k \in Keys : ResetExpire(k)
    \/ \E k \in Keys, f \in FetchOutcomes : GetURL(k, f)
    \/ \E k \in Keys, f \in FetchOutcomes : GetURLVanish(k, f)

    \/ \E k \in Keys : GetFile(k)
    \/ \E wok \in BOOLEAN : WriteExpiryFile(wok)
    \/ \E p \in Paths : RemoveFile(p)
    \/ \E p \in Paths, b \in CallerBodies : CallerWrite(p, b)
    \/ \E p \in Paths : LockFile(p)

Spec == Init /\ [][Next]_vars

----------------------------------------------------------------------------
(* Runs of the program one after another on one cache directory *)

\* the directory the first run finds: every content file in place, no table
\* or a table with an entry one second inside the horizon
InitRestart ==
    /\ Init
    /\ fs = [p \in Paths |-> "p1"]
    /\ table \in {NoTable,
                  TableOf([k \in {"a"} |->
                              [url |-> TRUE, expiry |-> StartTime - Horizon + 1]])}

\* mkInventory ends with WriteExpiryFile, whatever it returns
WriteAndExit(wok) ==
    LET r == WriteExpiryFileOp(wok) IN
    /\ running
    /\ table' = r.table
    /\ writeExpiry' = r.writeExpiry
    /\ running' = FALSE
    /\ tableWrites' = IF r.written THEN tableWrites + 1 ELSE tableWrites
    /\ content' = r.content
    /\ UNCHANGED <<cacheRefresh, apiInit, fs, now, registered, forced,
                   freshUntil, boot, pc, tableReads,
                   dirExists, callVars, peerVars>>

\* the program is started again: NewCacher on the same directory
Restart ==
    /\ ~running
    /\ content' = importExpiry(table, now)
    /\ cacheRefresh' = FALSE
    /\ writeExpiry' = FALSE
    /\ apiInit' = FALSE
    /\ running' = ~importFatal(table)
    /\ registered' = {}
    /\ forced' = FALSE
    /\ freshUntil' = [k \in Keys |-> None]
    /\ boot' = BootRecord(table, now, content, writeExpiry, TRUE)
    /\ tableReads' = 1
    /\ tableWrites' = 0
    /\ UNCHANGED <<fs, table, now, pc, dirExists, callVars, peerVars>>

NextRestart ==
    \/ Tick
    \/ \E r \in URLRegistrations : AddURL(r[1], r[2], r[3])
    \/ \E r \in Registrations \ URLRegistrations : AddFile(r[1], r[2], r[3])

    \/ \E k \in Keys : ResetExpire(k)
    \/ \E wok \in BOOLEAN : WriteAndExit(wok)
    \/ Restart

SpecRestart == InitRestart /\ [][NextRestart]_vars

----------------------------------------------------------------------------
(* Two runs on one cache directory at the same time.  The first is the Cache
   of the variables above; the second (peer) has a Cache of its own: its
   registry, its dirty flag and what it imported.  Both share expire.json. *)

\* the first run has made its cache, the second has not started
InitTwoRuns ==
    /\ table \in {NoTable,
                  TableOf([k \in {"a"} |->
                              [url |-> TRUE, expiry |-> StartTime - Horizon + 1]])}
    /\ now = StartTime
    /\ content = importExpiry(table, now)
    /\ cacheRefresh = FALSE
    /\ writeExpiry = FALSE
    /\ apiInit = FALSE
    /\ fs = [p \in Paths |-> "p1"]
    /\ running = TRUE
    /\ boot = BootRecord(table, now, EmptyRegistry, FALSE, FALSE)
    /\ pc = "free"
    /\ tableReads = 1
    /\ tableWrites = 0
    /\ dirExists = TRUE
    /\ peer = [phase |-> "idle"]
    /\ exports = <<>>
    /\ args = NoCall
    /\ result = NoCall
    /\ registered = {}
    /\ forced = FALSE
    /\ freshUntil = [k \in Keys |-> None]


\* os.WriteFile that folds the entries of the file it replaces into the new one
ExportOverMerge(tbl, c) ==
    LET new == ExportTable(c).entries
        old == IF tbl.exists /\ tbl.readable THEN tbl.entries ELSE NoEntries
    IN TableOf([k \in DOMAIN new \cup DOMAIN old |->
                   IF k \notin DOMAIN new THEN old[k]
                   ELSE IF k \in DOMAIN old /\ old[k].expiry > new[k].expiry
                   THEN old[k] ELSE new[k]])

\* expire.json after WriteExpiryFile of the registry c wrote over tbl:
\* os.WriteFile truncates the file, nothing of tbl is read
ExportOver(tbl, c) == ExportTable(c)

\* the first run ends with WriteExpiryFile
MainExport(wok) ==
    LET r == WriteExpiryFileOp(wok) IN
    /\ running
    /\ table' = IF r.written THEN ExportOver(table, content) ELSE table
    /\ writeExpiry' = r.writeExpiry
    /\ running' = FALSE
    /\ tableWrites' = IF r.written THEN tableWrites + 1 ELSE tableWrites
    /\ exports' = IF r.written THEN Append(exports, "main") ELSE exports
    /\ content' = r.content
    /\ UNCHANGED <<cacheRefresh, apiInit, fs, now, registered, forced,
                   freshUntil, boot, pc, tableReads, dirExists, callVars, peer>>

\* what the second run leaves alone
peerFrame ==
    <<content, cacheRefresh, writeExpiry, apiInit, fs, now, running, registered,
      forced, freshUntil, boot, runVars, callVars>>

\* the second run starts: NewCacher imports the table as it is now
PeerStart ==
    /\ peer.phase = "idle"
    /\ ~importFatal(table)
    /\ peer' = [phase |-> "running",
                content |-> importExpiry(table, now),
                imported |-> importExpiry(table, now),
                writeExpiry |-> FALSE,
                reads |-> 1]
    /\ UNCHANGED <<peerFrame, table, exports>>

\* AddURL / AddFile of the second run
PeerAdd(k, isURL, name, validity) ==
    /\ peer.phase = "running"
    /\ peer' = [peer EXCEPT !.content =
                   PutItem(peer.content, k,
                           RegisterItem(peer.content, k, isURL, name, validity))]
    /\ UNCHANGED <<peerFrame, table, exports>>

\* ResetExpire of the second run, by its GetURL or by its caller
PeerResetExpire(k) ==
    /\ peer.phase = "running"
    /\ k \in DOMAIN peer.content
    /\ peer' = [peer EXCEPT !.content =
                   PutItem(peer.content, k, ResetItem(peer.content[k], now)),
                            !.writeExpiry = TRUE]
    /\ UNCHANGED <<peerFrame, table, exports>>

\* the second run ends with WriteExpiryFile
PeerExport(wok) ==
    LET written == peer.writeExpiry /\ wok IN
    /\ peer.phase = "running"
    /\ table' = IF written THEN ExportOver(table, peer.content) ELSE table
    /\ peer' = [peer EXCEPT !.phase = "done",
                            !.writeExpiry = IF written THEN FALSE ELSE @]
    /\ exports' = IF written THEN Append(exports, "peer") ELSE exports
    /\ UNCHANGED peerFrame

NextTwoRuns ==
    \/ Tick
    \/ \E r \in URLRegistrations : AddURL(r[1], r[2], r[3])
    \/ \E r \in Registrations \ URLRegistrations : AddFile(r[1], r[2], r[3])
    \/ \E k \in Keys : ResetExpire(k)
    \/ \E wok \in BOOLEAN : MainExport(wok)
    \/ PeerStart
    \/ \E r \in URLRegistrations : PeerAdd(r[1], TRUE, r[2], r[3])
    \/ \E r \in Registrations \ URLRegistrations : PeerAdd(r[1], FALSE, r[2], r[3])
    \/ \E k \in Keys : PeerResetExpire(k)
    \/ \E wok \in BOOLEAN : PeerExport(wok)

SpecTwoRuns == InitTwoRuns /\ [][NextTwoRuns]_vars


----------------------------------------------------------------------------
(* One batch run: mkInventory from the start of the process to its end.
   parseHosts and the shaping of the document are left out: the inventory
   that refreshInventory builds is any of CallerBodies.  The listing of host
   collections names one collection. *)

\* inventoryName and its file, hostsURL and its file
InventoryKey == "b"
InventoryFile == "f2"
HostsKey == "a"
HostsFile == "f1"
\* collectionsURL and "host_collections.json"
CollectionsKey == "c"
CollectionsFile == "f3"
\* collectionURL of the collection the listing names and its file
CollectionKey == "d"
CollectionFile == "f4"

BatchKeys == Keys \cup {CollectionsKey, CollectionKey}
BatchPaths == Paths \cup {JoinPath(cacheDir, n) : n \in {CollectionsFile, CollectionFile}}

\* a table of a run that refreshed every item a moment ago
FreshEntries ==
    [k \in BatchKeys |-> [url |-> k # InventoryKey, expiry |-> StartTime + 1]]

\* what the run has done so far: the answer of HasExpired, inv.json, the bytes
\* printed to Stdout, the fetches made and the statement that ended the run
NewRun ==
    [fn |-> "mkInventory", branch |-> "none", json |-> "", out |-> "",
     hosts |-> FALSE, listing |-> FALSE, collection |-> "none",
     stored |-> FALSE, fetches |-> 0, fatal |-> "none"]

\* the process starts: flags.Refresh and flags.List are given or not, the
\* cache directory may not exist yet, and without it there is neither table
\* nor content file
InitBatch ==
    /\ dirExists \in BOOLEAN
    /\ table \in IF dirExists THEN InitTables \cup {TableOf(FreshEntries)}
                 ELSE {NoTable}
    /\ fs \in IF dirExists THEN [BatchPaths -> {Missing} \cup CallerBodies]
              ELSE {[p \in BatchPaths |-> Missing]}

    /\ args \in {[fn |-> "mkInventory", refresh |-> r, list |-> l,
                  dirThere |-> dirExists] : r \in BOOLEAN, l \in BOOLEAN}
    /\ result = NewRun
    /\ now = StartTime
    /\ content = EmptyRegistry
    /\ cacheRefresh = FALSE
    /\ writeExpiry = FALSE
    /\ apiInit = FALSE
    /\ running = TRUE
    /\ boot = BootRecord(NoTable, now, EmptyRegistry, FALSE, FALSE)
    /\ registered = {}
    /\ forced = FALSE
    /\ freshUntil = [k \in BatchKeys |-> None]
    /\ pc = "start"
    /\ tableReads = 0
    /\ tableWrites = 0
    /\ peer = NoPeer
    /\ exports = <<>>

\* NewCacher that takes the directory as it is
mkNewCacherNoMkdir(mkdirOk) ==
    /\ running /\ pc = "start"
    /\ content' = importExpiry(table, now)
    /\ tableReads' = tableReads + 1
    /\ running' = ~importFatal(table)
    /\ boot' = BootRecord(table, now, EmptyRegistry, FALSE, FALSE)
    /\ pc' = IF importFatal(table) THEN "exit" ELSE "setRefresh"
    /\ UNCHANGED <<cacheRefresh, writeExpiry, apiInit, fs, table, now, registered,
                   forced, freshUntil, tableWrites, dirExists, callVars, peerVars>>

\* cacher.NewCacher(cfg.Cache.Dir); mkdirOk tells whether os.Mkdir succeeds
mkNewCacher(mkdirOk) ==
    /\ running /\ pc = "start"
    /\ IF ~dirExists /\ ~mkdirOk
       THEN /\ running' = FALSE
            /\ pc' = "failed"
            /\ UNCHANGED <<content, tableReads, boot, dirExists>>
       ELSE /\ dirExists' = TRUE
            /\ content' = importExpiry(table, now)
            /\ tableReads' = tableReads + 1
            /\ running' = ~importFatal(table)
            /\ boot' = BootRecord(table, now, EmptyRegistry, FALSE, FALSE)
            /\ pc' = IF importFatal(table) THEN "exit" ELSE "setRefresh"
    /\ UNCHANGED <<cacheRefresh, writeExpiry, apiInit, fs, table, now, registered,
                   forced, freshUntil, tableWrites, callVars, peerVars>>

\* if flags.Refresh { inv.cache.SetRefresh() }
mkSetRefresh ==
    /\ running /\ pc = "setRefresh"
    /\ cacheRefresh' = (cacheRefresh \/ args.refresh)
    /\ forced' = (forced \/ args.refresh)
    /\ pc' = "addFile"
    /\ UNCHANGED <<content, writeExpiry, apiInit, fs, table, now, running,
                   registered, freshUntil, boot, tableReads, tableWrites,
                   dirExists, callVars, peerVars>>

\* inv.cache.AddFile(inventoryName, ...)
mkAddFile ==
    /\ running /\ pc = "addFile"
    /\ content' = AddFileOp(InventoryKey, InventoryFile, MaxValidity)
    /\ registered' = registered \cup {InventoryKey}
    /\ pc' = "hasExpired"
    /\ UNCHANGED <<cacheRefresh, writeExpiry, apiInit, fs, table, now, running,
                   forced, freshUntil, boot, tableReads, tableWrites, dirExists,
                   callVars, peerVars>>

\* mkInventory that rebuilds the inventory whatever HasExpired answers
mkHasExpiredAlways ==
    LET h == HasExpiredOp(InventoryKey) IN
    /\ running /\ pc = "hasExpired"
    /\ running' = (h.err = Nil)
    /\ pc' = IF h.err # Nil THEN "exit" ELSE "initAPI"
    /\ result' = [result EXCEPT
                     !.branch = IF h.err # Nil THEN @
                                ELSE IF h.refresh THEN "rebuild" ELSE "cached",
                     !.fatal = IF h.err # Nil THEN "hasExpired" ELSE @]
    /\ UNCHANGED <<content, cacheRefresh, writeExpiry, apiInit, fs, table, now,
                   registered, forced, freshUntil, boot, tableReads, tableWrites,
                   dirExists, args, peerVars>>

\* refresh, err := inv.cache.HasExpired(inventoryName)
mkHasExpired ==
    LET h == HasExpiredOp(InventoryKey) IN
    /\ running /\ pc = "hasExpired"
    /\ running' = (h.err = Nil)
    /\ pc' = IF h.err # Nil THEN "exit"
             ELSE IF h.refresh THEN "initAPI" ELSE "getFile"
    /\ result' = [result EXCEPT
                     !.branch = IF h.err # Nil THEN @
                                ELSE IF h.refresh THEN "rebuild" ELSE "cached",
                     !.fatal = IF h.err # Nil THEN "hasExpired" ELSE @]
    /\ UNCHANGED <<content, cacheRefresh, writeExpiry, apiInit, fs, table, now,
                   registered, forced, freshUntil, boot, tableReads, tableWrites,
                   dirExists, args, peerVars>>

\* i, err := inv.cache.GetFile(inventoryName); inv.json = string(i)
mkGetFile ==
    LET r == GetFileOp(InventoryKey) IN
    /\ running /\ pc = "getFile"
    /\ running' = (r.err = Nil)
    /\ pc' = IF r.err # Nil THEN "exit" ELSE "print"
    /\ result' = [result EXCEPT
                     !.json = IF r.err = Nil THEN r.out ELSE @,
                     !.fatal = IF r.err # Nil THEN "getFile" ELSE @]
    /\ UNCHANGED <<content, cacheRefresh, writeExpiry, apiInit, fs, table, now,
                   registered, forced, freshUntil, boot, tableReads, tableWrites,
                   dirExists, args, peerVars>>

\* refreshInventory: inv.cache.InitAPI(...)
mkInitAPI ==
    /\ running /\ pc = "initAPI"
    /\ apiInit' = TRUE
    /\ pc' = "addHosts"
    /\ UNCHANGED <<content, cacheRefresh, writeExpiry, fs, table, now, running,
                   registered, forced, freshUntil, boot, tableReads, tableWrites,
                   dirExists, callVars, peerVars>>

\* refreshInventory: inv.cache.AddURL(hostsURL, "hosts.json", ...)
mkAddHosts ==
    /\ running /\ pc = "addHosts"
    /\ content' = AddURLOp(HostsKey, HostsFile, MaxValidity)
    /\ registered' = registered \cup {HostsKey}
    /\ pc' = "getHosts"
    /\ UNCHANGED <<cacheRefresh, writeExpiry, apiInit, fs, table, now, running,
                   forced, freshUntil, boot, tableReads, tableWrites, dirExists,
                   callVars, peerVars>>

\* refreshInventory: hosts, err := inv.cache.GetURL(hostsURL)
mkGetHosts(f) ==
    LET r == GetURLOp(HostsKey, f) IN
    /\ running /\ pc = "getHosts"
    /\ content' = r.content
    /\ fs' = r.fs
    /\ writeExpiry' = r.writeExpiry
    /\ freshUntil' = IF r.err = Nil /\ r.fetches > 0
                     THEN [freshUntil EXCEPT ![HostsKey] =
                               now + content[HostsKey].validity]
                     ELSE freshUntil
    /\ running' = (r.err = Nil)
    /\ pc' = IF r.err # Nil THEN "exit" ELSE "addCollections"
    /\ result' = [result EXCEPT
                     !.hosts = (r.err = Nil),
                     !.fetches = @ + r.fetches,
                     !.fatal = IF r.err # Nil THEN "hosts" ELSE @]
    /\ UNCHANGED <<cacheRefresh, apiInit, table, now, registered, forced, boot,
                   tableReads, tableWrites, dirExists, args, peerVars>>

\* parseHostCollections: inv.cache.AddURL(collectionsURL, ...)
mkAddCollections ==
    /\ running /\ pc = "addCollections"
    /\ content' = AddURLOp(CollectionsKey, CollectionsFile, MaxValidity)
    /\ registered' = registered \cup {CollectionsKey}
    /\ pc' = "getCollections"
    /\ UNCHANGED <<cacheRefresh, writeExpiry, apiInit, fs, table, now, running,
                   forced, freshUntil, boot, tableReads, tableWrites, dirExists,
                   callVars, peerVars>>

\* parseHostCollections: collections, err := inv.cache.GetURL(collectionsURL)
mkGetCollections(f) ==
    LET r == GetURLOp(CollectionsKey, f) IN
    /\ running /\ pc = "getCollections"
    /\ content' = r.content
    /\ fs' = r.fs
    /\ writeExpiry' = r.writeExpiry
    /\ freshUntil' = IF r.err = Nil /\ r.fetches > 0
                     THEN [freshUntil EXCEPT ![CollectionsKey] =
                               now + content[CollectionsKey].validity]
                     ELSE freshUntil
    /\ running' = (r.err = Nil)
    /\ pc' = IF r.err # Nil THEN "exit" ELSE "addCollection"
    /\ result' = [result EXCEPT
                     !.listing = (r.err = Nil),
                     !.fetches = @ + r.fetches,
                     !.fatal = IF r.err # Nil THEN "listing" ELSE @]
    /\ UNCHANGED <<cacheRefresh, apiInit, table, now, registered, forced, boot,
                   tableReads, tableWrites, dirExists, args, peerVars>>

\* getHostCollection: inv.cache.AddURL(collectionURL, collectionFilename, ...)
mkAddCollection ==
    /\ running /\ pc = "addCollection"
    /\ content' = AddURLOp(CollectionKey, CollectionFile, MaxValidity)
    /\ registered' = registered \cup {CollectionKey}
    /\ pc' = "getCollection"
    /\ UNCHANGED <<cacheRefresh, writeExpiry, apiInit, fs, table, now, running,
                   forced, freshUntil, boot, tableReads, tableWrites, dirExists,
                   callVars, peerVars>>

\* getHostCollection: collection, err := inv.cache.GetURL(collectionURL), then
\* the tests of its id field (idOk); parseHostCollections logs an error of
\* getHostCollection and continues with the next collection
mkGetCollection(f, idOk) ==
    LET r == GetURLOp(CollectionKey, f)
        got == r.err = Nil /\ idOk
    IN /\ running /\ pc = "getCollection"
       /\ content' = r.content
       /\ fs' = r.fs
       /\ writeExpiry' = r.writeExpiry
       /\ freshUntil' = IF r.err = Nil /\ r.fetches > 0
                        THEN [freshUntil EXCEPT ![CollectionKey] =
                                  now + content[CollectionKey].validity]
                        ELSE freshUntil
       /\ pc' = "writeInventory"
       /\ result' = [result EXCEPT
                        !.collection = IF got THEN "got" ELSE "skipped",
                        !.fetches = @ + r.fetches]
       /\ UNCHANGED <<cacheRefresh, apiInit, table, now, running, registered,
                      forced, boot, tableReads, tableWrites, dirExists, args,
                      peerVars>>

\* refreshInventory that writes the table as soon as the inventory is stored
mkWriteInventoryAndTable(b) ==
    LET g == GetFilenameOp(InventoryKey)
        ok == g.err = Nil /\ FileWritable(g.out)
    IN /\ running /\ pc = "writeInventory"
       /\ fs' = IF ok THEN [fs EXCEPT ![g.out] = b] ELSE fs
       /\ table' = IF ok THEN ExportTable(content) ELSE table
       /\ tableWrites' = IF ok THEN tableWrites + 1 ELSE tableWrites
       /\ running' = ok
       /\ pc' = IF ok THEN "resetExpire" ELSE "exit"
       /\ result' = [result EXCEPT !.json = b, !.stored = ok,
                                   !.fatal = IF ok THEN @ ELSE "write"]
       /\ UNCHANGED <<content, cacheRefresh, writeExpiry, apiInit, now,
                      registered, forced, freshUntil, boot, tableReads,
                      dirExists, args, peerVars>>

\* refreshInventory that goes on to ResetExpire when the write has failed
mkWriteInventoryUnchecked(b) ==
    LET g == GetFilenameOp(InventoryKey)
        ok == g.err = Nil /\ FileWritable(g.out)
    IN /\ running /\ pc = "writeInventory"
       /\ fs' = IF ok THEN [fs EXCEPT ![g.out] = b] ELSE fs
       /\ pc' = "resetExpire"
       /\ result' = [result EXCEPT !.json = b, !.stored = ok]
       /\ UNCHANGED <<content, cacheRefresh, writeExpiry, apiInit, table, now,
                      running, registered, forced, freshUntil, boot, tableReads,
                      tableWrites, dirExists, args, peerVars>>

\* refreshInventory: GetFilename(inventoryName), then os.WriteFile of inv.json,
\* the inventory the caller has built
mkWriteInventory(b) ==
    LET g == GetFilenameOp(InventoryKey)
        ok == g.err = Nil /\ FileWritable(g.out)
    IN /\ running /\ pc = "writeInventory"
       /\ fs' = IF ok THEN [fs EXCEPT ![g.out] = b] ELSE fs
       /\ running' = ok
       /\ pc' = IF ok THEN "resetExpire" ELSE "exit"
       /\ result' = [result EXCEPT !.json = b, !.stored = ok,
                                   !.fatal = IF ok THEN @ ELSE "write"]
       /\ UNCHANGED <<content, cacheRefresh, writeExpiry, apiInit, table, now,
                      registered, forced, freshUntil, boot, tableReads,
                      tableWrites, dirExists, args, peerVars>>

\* refreshInventory: inv.cache.ResetExpire(inventoryName)
mkResetExpire ==
    LET r == ResetExpireOp(InventoryKey) IN
    /\ running /\ pc = "resetExpire"
    /\ content' = r.content
    /\ writeExpiry' = r.writeExpiry
    /\ freshUntil' = [freshUntil EXCEPT ![InventoryKey] = None]
    /\ pc' = "print"
    /\ UNCHANGED <<cacheRefresh, apiInit, fs, table, now, running, registered,
                   forced, boot, tableReads, tableWrites, dirExists, callVars, peerVars>>

\* mkInventory: if flags.List { fmt.Fprint(os.Stdout, inv.json) }; pok tells
\* whether the write to Stdout succeeds
mkPrint(pok) ==
    LET ok == ~args.list \/ pok IN
    /\ running /\ pc = "print"
    /\ running' = ok
    /\ pc' = IF ok THEN "writeExpiry" ELSE "exit"
    /\ result' = [result EXCEPT
                     !.out = IF args.list /\ pok THEN result.json ELSE @,
                     !.fatal = IF ok THEN @ ELSE "print"]
    /\ UNCHANGED <<content, cacheRefresh, writeExpiry, apiInit, fs, table, now,
                   registered, forced, freshUntil, boot, tableReads, tableWrites,
                   dirExists, args, peerVars>>

\* mkInventory: inv.cache.WriteExpiryFile(), the last statement of the run
mkWriteExpiryFile(wok) ==
    LET r == WriteExpiryFileOp(wok) IN
    /\ running /\ pc = "writeExpiry"
    /\ table' = r.table
    /\ writeExpiry' = r.writeExpiry
    /\ tableWrites' = IF r.written THEN tableWrites + 1 ELSE tableWrites
    /\ running' = FALSE
    /\ pc' = "done"
    /\ content' = r.content
    /\ UNCHANGED <<cacheRefresh, apiInit, fs, now, registered, forced,
                   freshUntil, boot, tableReads, dirExists, callVars, peerVars>>

\* the content files change under the run only once the directory exists;
\* the files of the host collections change by the run alone, and of the
\* other two the inventory file is the one that loses its permissions
NextBatch ==
    \/ \E mkdirOk \in BOOLEAN : mkNewCacher(mkdirOk)
    \/ mkSetRefresh
    \/ mkAddFile
    \/ mkHasExpired
    \/ mkGetFile
    \/ mkInitAPI
    \/ mkAddHosts
    \/ \E f \in FetchOutcomes : mkGetHosts(f)
    \/ mkAddCollections
    \/ \E f \in FetchOutcomes : mkGetCollections(f)
    \/ mkAddCollection
    \/ \E f \in FetchOutcomes, idOk \in BOOLEAN : mkGetCollection(f, idOk)
    \/ \E b \in CallerBodies : mkWriteInventory(b)
    \/ mkResetExpire
    \/ \E pok \in BOOLEAN : mkPrint(pok)
    \/ \E wok \in BOOLEAN : mkWriteExpiryFile(wok)
    \/ Tick
    \/ \E p \in Paths : dirExists /\ RemoveFile(p)
    \/ dirExists /\ LockFile(JoinPath(cacheDir, InventoryFile))

SpecBatch ==
 InitBatch /\ [][NextBatch]_vars

----------------------------------------------------------------------------
(* The functions around the cache that compute a value from their arguments:
   args holds the arguments of the last call and result what it returned. *)

cacheVars ==
    <<content, cacheRefresh, writeExpiry, apiInit, fs, table, now, running,
      registered, forced, freshUntil, boot, runVars>>

\* a --config flag that is not on the command line, a variable that is not in
\* the environment
NotSet == "<not set>"

defaultConfig == "/etc/ansible/satinv.yml"

ConfigPaths == {"/etc/ansible/satinv.yml", "/etc/promsat/fake.yml", "/tmp/c.yml"}

\* what the command line and the environment may hold
ConfigInputs == {NotSet, ""} \cup ConfigPaths

\* flag.StringVar(&f.Config, "config", "", ...) after flag.Parse()
FlagValue(flag) == IF flag = NotSet THEN "" ELSE flag

\* os.Getenv: the value, or "" for a variable that is not present
Getenv(env) == IF env = NotSet THEN "" ELSE env

\* ParseFlags that lets the environment override the flag
ParseFlagsEnvFirst(flag, env) ==
    IF Getenv(env) # "" THEN Getenv(env)
    ELSE IF FlagValue(flag) # "" THEN FlagValue(flag)
    ELSE defaultConfig

\* f.Config as ParseFlags returns it
ParseFlags(flag, env) ==
    IF FlagValue(flag) # "" THEN FlagValue(flag)
    ELSE IF Getenv(env) = "" THEN defaultConfig
    ELSE Getenv(env)

ParseFlagsInputs ==
    [fn : {"ParseFlags"}, config : ConfigInputs, env : ConfigInputs]

CallParseFlags ==
    /\ args.fn = "ParseFlags"
    /\ result = NoCall
    /\ result' = [fn |-> "ParseFlags", config |-> ParseFlags(args.config, args.env)]
    /\ UNCHANGED <<cacheVars, args, peerVars>>

\* addresses are AddrBits wide
AddrBits == 3

Addrs == 0 .. (2^AddrBits - 1)

RangeNames == {"test1", "test2"}

\* the subnet strings of the configuration: address/length, or a typo
MalformedSubnet == [ok |-> FALSE, base |-> 0, len |-> 0]

SubnetInputs ==
    [ok : {TRUE}, base : Addrs, len : 0 .. AddrBits] \cup {MalformedSubnet}

\* the address strings of a host: an address, or something else
MalformedAddr == [ok |-> FALSE, addr |-> 0]

AddrInputs == [ok : {TRUE}, addr : Addrs] \cup {MalformedAddr}

\* the nil *net.IPNet and the nil net.IP
NilNet == [nil |-> TRUE, ip |-> 0, len |-> 0]
NilIP == [nil |-> TRUE, v |-> 0]

\* ip.Mask(m) for a mask of len leading ones
MaskIP(ip, len) == ip - (ip % 2^(AddrBits - len))

\* net.ParseCIDR: the address, and the network with its address masked
ParseCIDR(s) ==
    IF ~s.ok
    THEN [ip |-> NilIP, net |-> NilNet, err |-> TRUE]
    ELSE [ip |-> [nil |-> FALSE, v |-> s.base],
          net |-> [nil |-> FALSE, ip |-> MaskIP(s.base, s.len), len |-> s.len],
          err |-> FALSE]

\* ipAddr + "/32": the whole address is the prefix
HostCIDR(ipAddr) ==
    IF ~ipAddr.ok THEN MalformedSubnet
    ELSE [ok |-> TRUE, base |-> ipAddr.addr, len |-> AddrBits]

\* (*net.IPNet).Contains on a network that is not nil
Contains(n, ip) ==
    IF ip.nil THEN FALSE
    ELSE MaskIP(ip.v, n.len) = MaskIP(n.ip, n.len)

\* AddCIDRMap: AddCIDR for every entry; AddCIDR stores what ParseCIDR returned,
\* the nil network of a subnet that does not parse included
AddCIDRMap(cidrMap) ==
    [name \in DOMAIN cidrMap |-> ParseCIDR(cidrMap[name]).net]

\* ParseCIDRs on the map c: the loop calls Contains on every entry, in any
\* order, and Contains on the nil network dereferences nil
ParseCIDRs(c, ipAddr) ==
    LET ip == ParseCIDR(HostCIDR(ipAddr)).ip IN
    IF \E name \in DOMAIN c : c[name].nil
    THEN [panic |-> TRUE, memberOf |-> {}]
    ELSE [panic |-> FALSE,
          memberOf |-> {name \in DOMAIN c : Contains(c[name], ip)}]

\* the maps the configuration may hold under cidrs
CidrMaps ==
    UNION {[names -> SubnetInputs] : names \in SUBSET RangeNames}

ParseCIDRsInputs ==
    [fn : {"ParseCIDRs"}, cidrs : CidrMaps, addr : AddrInputs]

CallParseCIDRs ==
    /\ args.fn = "ParseCIDRs"
    /\ result = NoCall
    /\ result' = [fn |-> "ParseCIDRs"] @@
                     ParseCIDRs(AddCIDRMap(args.cidrs), args.addr)
    /\ UNCHANGED <<cacheVars, args, peerVars>>

\* a field of the host JSON that gjson does not find: String() is "", Int() 0
NoField == [exists |-> FALSE, s |-> "", n |-> 0]

\* host.Get("ip") and host.Get("ip6")
IPFields ==
    {NoField} \cup [exists : {TRUE}, s : {"", "10.0.0.1"}, n : {0}]

\* host.Get("operatingsystem_id") and host.Get("subscription_status")
NumberFields ==
    {NoField} \cup [exists : {TRUE}, s : {""}, n : {0, 2}]

\* cfg.Valid.Hours by default, and the seconds of an hour
defaultSatValidHours == 48
HourSeconds == 60 * 60

\* inv.oldestValidTime as mkInventory sets it
oldestValidTime == now - defaultSatValidHours * HourSeconds

\* the default of the older sat_valid_days, and the limit hgSatValid computes
defaultSatValidDays == 7
oldestSatValidTime == now - 24 * HourSeconds * defaultSatValidDays

\* satTimestamp of last_checkin: the text parses to an instant or it does not
NoCheckin == [exists |-> FALSE, parses |-> FALSE, t |-> 0]
BadCheckin == [exists |-> TRUE, parses |-> FALSE, t |-> 0]

CheckinFields(limit) ==
    {NoCheckin, BadCheckin} \cup
    [exists : {TRUE}, parses : {TRUE}, t : {limit - 1, limit, StartTime}]


\* a host of the Satellite API as the valid-group functions look at it;
\* listed and matched are containsStr(hostNameShort, cfg.Valid.ExcludeHosts)
\* and validExcludeRE.Match(hostNameShort)
Hosts(limit) ==
    [ip : IPFields, ip6 : IPFields, osid : NumberFields, sub : NumberFields,
     checkin : CheckinFields(limit), listed : BOOLEAN, matched : BOOLEAN]

\* hgSatValid of the older main program: TRUE when the host joins the group
hgSatValid(host) ==
    IF ~host.ip.exists /\ ~host.ip6.exists THEN FALSE
    ELSE IF host.ip.s = "" /\ host.ip6.s = "" THEN FALSE
    ELSE IF ~host.sub.exists \/ host.sub.n # 0 THEN FALSE
    ELSE IF ~host.checkin.exists THEN FALSE
    ELSE IF ~host.checkin.parses THEN FALSE
    ELSE IF host.checkin.t < oldestSatValidTime THEN FALSE
    ELSE TRUE

\* hgValid that also wants an address, as hgSatValid did
hgValidWithIP(host, unlicensed) ==
    IF host.listed THEN FALSE
    ELSE IF host.matched THEN FALSE
    ELSE IF host.ip.s = "" /\ host.ip6.s = "" THEN FALSE
    ELSE IF ~host.osid.exists \/ host.osid.n = 0 THEN FALSE
    ELSE IF ~host.sub.exists THEN FALSE
    ELSE IF host.sub.n # 0 /\ ~unlicensed THEN FALSE
    ELSE IF ~host.checkin.exists THEN FALSE
    ELSE IF ~host.checkin.parses THEN FALSE
    ELSE IF host.checkin.t < oldestValidTime THEN FALSE
    ELSE TRUE

\* hgValid: TRUE when the host is appended to the valid group; unlicensed is
\* cfg.Valid.Unlicensed
hgValid(host, unlicensed) ==
    IF host.listed THEN FALSE
    ELSE IF host.matched THEN FALSE
    ELSE IF ~host.osid.exists \/ host.osid.n = 0 THEN FALSE
    ELSE IF ~host.sub.exists THEN FALSE
    ELSE IF host.sub.n # 0 /\ ~unlicensed THEN FALSE
    ELSE IF ~host.checkin.exists THEN FALSE
    ELSE IF ~host.checkin.parses THEN FALSE
    ELSE IF host.checkin.t < oldestValidTime THEN FALSE
    ELSE TRUE

hgValidInputs ==
    [fn : {"hgValid"}, host : Hosts(StartTime - defaultSatValidHours * HourSeconds),
     unlicensed : BOOLEAN]

hgSatValidInputs ==
    [fn : {"hgSatValid"},
     host : Hosts(StartTime - 24 * HourSeconds * defaultSatValidDays)]

CallhgValid ==
    /\ args.fn = "hgValid"
    /\ result = NoCall
    /\ result' = [fn |-> "hgValid", valid |-> hgValid(args.host, args.unlicensed)]
    /\ UNCHANGED <<cacheVars, args, peerVars>>

CallhgSatValid ==
    /\ args.fn = "hgSatValid"
    /\ result = NoCall
    /\ result' = [fn |-> "hgSatValid", valid |-> hgSatValid(args.host)]
    /\ UNCHANGED <<cacheVars, args, peerVars>>

CallInputs ==
    ParseFlagsInputs \cup ParseCIDRsInputs \cup hgValidInputs \cup hgSatValidInputs

\* a call is about to be made; the cache is not part of these calls
InitCalls ==
    /\ args \in CallInputs
    /\ result = NoCall
    /\ content = EmptyRegistry
    /\ cacheRefresh = FALSE
    /\ writeExpiry = FALSE
    /\ apiInit = FALSE
    /\ fs = [p \in Paths |-> Missing]
    /\ table = NoTable
    /\ now = StartTime
    /\ running = TRUE
    /\ registered = {}
    /\ forced = FALSE
    /\ freshUntil = [k \in Keys |-> None]
    /\ boot = BootRecord(NoTable, now, EmptyRegistry, FALSE, FALSE)
    /\ pc = "free"
    /\ tableReads = 0
    /\ tableWrites = 0
    /\ dirExists = TRUE
    /\ peer = NoPeer
    /\ exports = <<>>

NextCalls ==
    \/ CallParseFlags
    \/ CallParseCIDRs
    \/ CallhgValid
    \/ CallhgSatValid




SpecCalls == InitCalls /\ [][NextCalls]_vars





----------------------------------------------------------------------------
(* Properties *)

\* the state GetURL leaves is the state it was called in
GetURLChangesNothing(r) ==
    /\ r.content = content
    /\ r.fs = fs
    /\ r.writeExpiry = writeExpiry

\* the key's item was refreshed by a GetURL, force-refresh is off and its
\* backing file is in place
RefreshedAndInPlace(k) ==
    /\ freshUntil[k] # None
    /\ ~cacheRefresh
    /\ k \in DOMAIN content
    /\ FileReadable(content[k].file)

(* C1: after a GetURL refreshed a Remote item at time t with validity v, with
   force-refresh off and the backing file in place, a GetURL at now <= t + v
   returns the content of the file without invoking the fetcher, and a GetURL
   at now > t + v invokes the fetcher again. *)
C1_FreshWindow ==
    \A k \in Keys : RefreshedAndInPlace(k) =>
        \A f \in FetchOutcomes :
            LET r == GetURLOp(k, f) IN
            IF now <= freshUntil[k]
            THEN /\ r.fetches = 0
                 /\ r.err = Nil
                 /\ r.out = ParseBytes(fs[content[k].file])
                 /\ GetURLChangesNothing(r)
            ELSE r.fetches = 1

\* the last second of the window, one tick after the refresh
C1_Witness ==
    \E k \in Keys :
        /\ RefreshedAndInPlace(k)
        /\ now = freshUntil[k]
        /\ now > StartTime

(* C2: once SetRefresh has been called, HasExpired returns true for every
   item of the registry, whatever its expiry and whether its file exists. *)
C2_ForcedRefresh ==
    forced => \A k \in DOMAIN content :
                  /\ HasExpiredOp(k).err = Nil
                  /\ HasExpiredOp(k).refresh

\* forced, with an item that would be fresh otherwise
C2_Witness ==
    /\ forced
    /\ \E k \in registered :
          /\ FileExists(content[k].file)
          /\ now <= content[k].expiry

(* C3: an item whose backing file does not exist is reported expired even
   when its expiry lies in the future. *)
C3_MissingFile ==
    \A k \in DOMAIN content :
        ~FileExists(content[k].file) =>
            /\ HasExpiredOp(k).err = Nil
            /\ HasExpiredOp(k).refresh

\* the file was deleted after a refresh and the validity window is still open
C3_Witness ==
    \E k \in registered :
        /\ freshUntil[k] # None
        /\ now <= content[k].expiry
        /\ ~cacheRefresh
        /\ ~FileExists(content[k].file)

(* C4: with force-refresh off and the backing file present, HasExpired
   returns true exactly when now > expiry. *)
C4_StrictExpiry ==
    \A k \in DOMAIN content :
        (~cacheRefresh /\ FileExists(content[k].file)) =>
            /\ HasExpiredOp(k).err = Nil
            /\ HasExpiredOp(k).refresh = (now > content[k].expiry)

\* the second at which the item expires: still fresh
C4_Witness ==
    \E k \in registered :
        /\ ~cacheRefresh
        /\ FileExists(content[k].file)
        /\ now = content[k].expiry
        /\ ~HasExpiredOp(k).refresh

\* the registry after a registration differs from c in the item of k alone,
\* which has the kind, path and validity given and the expiry c knew, or 0
RegisteredAs(c2, c, k, isURL, name, validity) ==
    /\ DOMAIN c2 = DOMAIN c \cup {k}
    /\ \A j \in DOMAIN c : j # k => c2[j] = c[j]
    /\ c2[k].url = isURL
    /\ c2[k].file = JoinPath(cacheDir, name)
    /\ c2[k].validity = validity
    /\ c2[k].expiry = IF k \in DOMAIN c THEN c[k].expiry ELSE 0

(* C5: AddURL and AddFile set the kind, file path and validity of the key
   to the arguments; the expiry of a key the registry already knows is left
   unchanged and that of a new key is 0. *)
C5_RegisterKeepsExpiry ==
    \A r \in Registrations :
        /\ RegisteredAs(AddURLOp(r[1], r[2], r[3]), content, r[1], TRUE, r[2], r[3])
        /\ RegisteredAs(AddFileOp(r[1], r[2], r[3]), content, r[1], FALSE, r[2], r[3])

\* an imported expiry that has survived the registration of its key
C5_Witness ==
    \E k \in registered :
        /\ table.exists
        /\ k \in DOMAIN table.entries
        /\ content[k].expiry = table.entries[k].expiry
        /\ content[k].expiry # 0
        /\ content[k].url # table.entries[k].url

\* the table held an expiry for the key that NewCacher imported
Imported(k) ==
    /\ table.exists
    /\ k \in DOMAIN table.entries
    /\ table.entries[k].expiry > StartTime - Horizon

\* what HasExpired answers for key k right after a registration left registry c2
ExpiredAfter(c2, k) ==
    Expired(c2[k], cacheRefresh, FileExists(c2[k].file), now)

(* C6 as stated: right after AddURL or AddFile, an item for whose key no
   expiry was imported from the persisted table is reported expired. *)
C6_Original ==
    \A r \in Registrations :
        ~Imported(r[1]) =>
            /\ ExpiredAfter(AddURLOp(r[1], r[2], r[3]), r[1])
            /\ ExpiredAfter(AddFileOp(r[1], r[2], r[3]), r[1])

(* C6 amended: right after AddURL or AddFile, an item whose key had no entry
   in the registry before the call (none imported and none registered
   earlier in the run) is reported expired. *)
C6_NewItemExpired ==
    \A r \in Registrations :
        r[1] \notin DOMAIN content =>
            /\ ExpiredAfter(AddURLOp(r[1], r[2], r[3]), r[1])
            /\ ExpiredAfter(AddFileOp(r[1], r[2], r[3]), r[1])

\* a key about to be registered for the first time, its file already on disk
\* and no forced refresh: only the expiry of 0 makes the new item expired
C6_Witness ==
    \E r \in Registrations :
        /\ r[1] \notin DOMAIN content
        /\ FileExists(JoinPath(cacheDir, r[2]))
        /\ ~cacheRefresh
        /\ registered # {}

\* HasExpired at time t0 and at time t1 of the item ResetExpire leaves for k
FreshThenStale(k, t0, t1) ==
    LET item == ResetExpireOp(k).content[k]
    IN /\ ~Expired(item, cacheRefresh, FileExists(item.file), t0)
       /\ Expired(item, cacheRefresh, FileExists(item.file), t1)

(* C7 as stated: for every item of the registry, ResetExpire at time now
   followed by HasExpired at now returns false, and HasExpired at
   now + validity + 1 returns true. *)
C7_Original ==
    \A k \in registered :
        FreshThenStale(k, now, now + content[k].validity + 1)

(* C7 amended: the same, for an item whose backing file exists while
   force-refresh is off. *)
C7_ResetThenFresh ==
    \A k \in DOMAIN content :
        (~cacheRefresh /\ FileExists(content[k].file)) =>
            FreshThenStale(k, now, now + content[k].validity + 1)

\* an item that ResetExpire has just stamped, file present, no forced refresh
C7_Witness ==
    \E k \in registered :
        /\ ~cacheRefresh
        /\ FileExists(content[k].file)
        /\ writeExpiry
        /\ freshUntil[k] = None
        /\ content[k].validity > 0
        /\ content[k].expiry = now + content[k].validity

\* ResetExpire of k: the expiry becomes now + validity, the dirty flag is
\* set, no error, and nothing else of the registry changes
ResetExpireEffect(k) ==
    LET r == ResetExpireOp(k) IN
    /\ r.err = Nil
    /\ DOMAIN r.content = DOMAIN content
    /\ r.content[k] = [content[k] EXCEPT !.expiry = now + content[k].validity]
    /\ \A j \in DOMAIN content : j # k => r.content[j] = content[j]
    /\ r.writeExpiry = TRUE

(* C8 as stated: ResetExpire sets the expiry to now + validity, sets the
   dirty flag, returns the new expiry value and changes nothing else. *)
C8_Original ==
    \A k \in registered :
        /\ ResetExpireEffect(k)
        /\ "expiry" \in DOMAIN ResetExpireOp(k).ret
        /\ ResetExpireOp(k).ret.expiry = now + content[k].validity

(* C8 amended: ResetExpire sets the expiry to now + validity, sets the dirty
   flag, returns a nil error and no other value, and changes nothing else. *)
C8_ResetExpire ==
    \A k \in DOMAIN content :
        /\ ResetExpireEffect(k)
        /\ ResetExpireOp(k).ret = [err |-> Nil]

\* ResetExpire has stamped one of two items of the registry
C8_Witness ==
    \E k \in registered :
        /\ DOMAIN content = Keys
        /\ writeExpiry
        /\ freshUntil[k] = None
        /\ content[k].validity > 0
        /\ content[k].expiry = now + content[k].validity
        /\ \A j \in Keys \ {k} : content[j].expiry # now + content[j].validity

(* C9: every keyed operation on a key that was not given to AddURL or
   AddFile in this run fails with errNoItem, whether or not the persisted
   table holds the key, changes nothing and does not invoke the fetcher. *)
C9_UnregisteredNotFound ==
    \A k \in Keys \ registered :
        /\ HasExpiredOp(k).err = errNoItem
        /\ GetFilenameOp(k).err = errNoItem
        /\ GetFileOp(k).err = errNoItem
        /\ ResetExpireOp(k).err = errNoItem
        /\ ResetExpireOp(k).content = content
        /\ ResetExpireOp(k).writeExpiry = writeExpiry
        /\ \A f \in FetchOutcomes :
              /\ GetURLOp(k, f).err = errNoItem
              /\ GetURLOp(k, f).fetches = 0
              /\ GetURLChangesNothing(GetURLOp(k, f))

(* C10: GetURL on a Local item and GetFile on a Remote item fail with the
   kind-mismatch error; neither invokes the fetcher, reads or writes a file,
   or changes the registry or the dirty flag. *)
C10_KindMismatch ==
    \A k \in DOMAIN content :
        IF content[k].url
        THEN GetFileOp(k) = [err |-> errIsURL, out |-> ""]
        ELSE \A f \in FetchOutcomes :
                 /\ GetURLOp(k, f).err = errIsFile
                 /\ GetURLOp(k, f).out = ""
                 /\ GetURLOp(k, f).fetches = 0
                 /\ GetURLChangesNothing(GetURLOp(k, f))

\* a Local item that is expired while the fetcher is ready, and a Remote
\* item whose file could be read
C10_Witness ==
    /\ apiInit
    /\ \E k \in registered :
          /\ ~content[k].url
          /\ HasExpiredOp(k).refresh
          /\ FileWritable(content[k].file)
    /\ \E k \in registered :
          /\ content[k].url
          /\ FileReadable(content[k].file)

\* the outcome r of a GetURL is the outcome of the refresh of k with fetch f
IsRefreshOf(r, k, f) ==
    LET a == getURLFromAPI(k, f) IN
    /\ r.err = a.err
    /\ r.out = a.out
    /\ r.fetches = a.fetches
    /\ r.content = a.content
    /\ r.writeExpiry = a.writeExpiry
    /\ r.err # errRead
    /\ IF apiInit THEN r.fetches = 1 ELSE r.err = errAPIInit

(* C11: when GetURL finds a Remote item not expired but cannot read its
   backing file, because the file cannot be opened or because it vanished
   after the expiry check, it does not return the read error: it goes on to
   the refresh, and what it returns and leaves is what the refresh returns and
   leaves. *)
C11_ReadFailureRefreshes ==
    \A k \in DOMAIN content :
        (content[k].url /\ ~HasExpiredOp(k).refresh) =>
            \A f \in FetchOutcomes :
                /\ ~FileReadable(content[k].file) =>
                       /\ IsRefreshOf(GetURLOp(k, f), k, f)
                       /\ GetURLOp(k, f).fs = getURLFromAPI(k, f).fs
                /\ FileReadable(content[k].file) =>
                       /\ IsRefreshOf(GetURLVanishOp(k, f), k, f)
                       /\ (f \in FetchBodies /\ apiInit) =>
                              GetURLVanishOp(k, f).err = Nil

\* a registered Remote item inside its validity whose file cannot be opened,
\* with the fetcher set up
C11_Witness ==
    \E k \in registered :
        /\ content[k].url
        /\ ~HasExpiredOp(k).refresh
        /\ fs[content[k].file] = Locked
        /\ apiInit

\* the JSON document some bytes hold: the compact body the API sends and its
\* indented print are one document; bytes that are not JSON hold only themselves
Document(b) == IF b \in {"c1", "p1"} THEN "doc1" ELSE b
SameDocument(a, b) == Document(a) = Document(b)
\* gjson finds a value in the bytes
IsJSON(b) == ParseBytes(b) = b /\ b # ""

\* what the claim promises of a GetURL with outcome r that stored body f for k
StoredAndStamped(r, k, f) ==
    /\ r.err = Nil
    /\ SameDocument(r.fs[content[k].file], f)
    /\ \A p \in Paths \ {content[k].file} : r.fs[p] = fs[p]
    /\ r.content[k].expiry = now + content[k].validity
    /\ r.writeExpiry
    /\ SameDocument(r.out, f)

(* C12 as stated: whenever GetURL refreshes a Remote item and the fetcher
   succeeds, the backing file afterwards holds the fetched content, the expiry
   is now + validity, the dirty flag is set and the fetched content is
   returned. *)
C12_Original ==
    \A k \in DOMAIN content : content[k].url =>
        \A f \in FetchBodies :
            GetURLOp(k, f).fetches = 1 => StoredAndStamped(GetURLOp(k, f), k, f)

(* C12: whenever GetURL refreshes a Remote item, the fetcher succeeds with a
   JSON document and the backing file can be written, the file afterwards
   holds that document in place of what it held, the expiry is
   now + validity, the dirty flag is set and the document is returned. *)
C12_RefreshStores ==
    \A k \in DOMAIN content : content[k].url =>
        \A f \in FetchBodies :
            (/\ GetURLOp(k, f).fetches = 1
             /\ IsJSON(f)
             /\ FileWritable(content[k].file)) =>
                /\ StoredAndStamped(GetURLOp(k, f), k, f)
                /\ GetURLOp(k, f).out = f

\* an expired registered Remote item whose file holds other content, with the
\* fetcher set up and time moved on since construction
C12_Witness ==
    \E k \in registered :
        /\ content[k].url
        /\ apiInit
        /\ HasExpiredOp(k).refresh
        /\ FileReadable(content[k].file)
        /\ content[k].validity > 0
        /\ now > StartTime
        /\ ~writeExpiry

(* C13: when the fetcher fails during the refresh of a GetURL, GetURL returns
   an error and the backing file (content and existence), the expiry of the
   item, every other item and the dirty flag are exactly as before the
   call. *)
C13_FetchFailureKeepsState ==
    \A k \in DOMAIN content : content[k].url =>
        LET r == GetURLOp(k, FetchFail) IN
        r.fetches = 1 =>
            /\ r.err # Nil
            /\ r.out = ""
            /\ r.fs = fs
            /\ r.content = content
            /\ r.writeExpiry = writeExpiry

\* the fetcher is set up and an expired registered Remote item has a
\* last-known-good file and an expiry of an earlier refresh, beside another item
C13_Witness ==
    \E k \in registered :
        /\ content[k].url
        /\ apiInit
        /\ HasExpiredOp(k).refresh
        /\ FileReadable(content[k].file)
        /\ content[k].expiry > 0
        /\ content[k].expiry < now + content[k].validity
        /\ ~writeExpiry
        /\ DOMAIN content # {k}

(* C14: while InitAPI has not been called, a GetURL of a Remote item that
   needs a refresh (expired, file missing or file unreadable) returns
   errAPIInit, an error distinct from the fetcher's failure and from the I/O
   errors, without invoking the fetcher and without changing file, expiry or
   dirty flag. *)
C14_NotInitialised ==
    ~apiInit =>
        \A k \in DOMAIN content :
            (content[k].url
             /\ (HasExpiredOp(k).refresh \/ ~FileReadable(content[k].file))) =>
                \A f \in FetchOutcomes :
                    /\ GetURLOp(k, f).err = errAPIInit
                    /\ errAPIInit \notin {Nil, errFetch, errWrite, errRead, errNoItem}
                    /\ GetURLOp(k, f).fetches = 0
                    /\ GetURLChangesNothing(GetURLOp(k, f))

\* InitAPI was not called and a registered Remote item with an earlier expiry
\* has lost its file
C14_Witness ==
    /\ ~apiInit
    /\ \E k \in registered :
          /\ content[k].url
          /\ content[k].expiry > 0
          /\ ~FileExists(content[k].file)

(* C15: GetFile on a Local item returns exactly the bytes of its backing file,
   or a read error when the file cannot be read, whatever the expiry of the
   item and the force-refresh flag; the step of GetFile in Next leaves every
   variable, so no fetch, expiry, dirty flag or file changes. *)
C15_GetFileReadsOnly ==
    \A k \in DOMAIN content : ~content[k].url =>
        /\ IF FileReadable(content[k].file)
           THEN GetFileOp(k) = [err |-> Nil, out |-> fs[content[k].file]]
           ELSE GetFileOp(k) = [err |-> errRead, out |-> ""]


\* a registered Local item that HasExpired reports expired by time, under
\* force-refresh, with its file readable
C15_Witness ==
    \E k \in registered :
        /\ ~content[k].url
        /\ cacheRefresh
        /\ now > content[k].expiry
        /\ FileReadable(content[k].file)

(* C16: constructing a cache on a directory without an expiry table file
   succeeds with an empty registry: the missing file is no error and the
   process goes on. *)
C16_MissingTableEmpty ==
    ~boot.table.exists =>
        /\ ~boot.fatal
        /\ boot.content = EmptyRegistry
        /\ (registered = {} => content = EmptyRegistry)

\* a run that began without a table file and went on to register an item
C16_Witness ==
    /\ ~boot.table.exists
    /\ running
    /\ registered # {}

(* C17: when the table file exists but cannot be read, or holds content that
   cannot be parsed, construction stops the process: the run never continues
   with an empty or partly imported registry. *)
C17_BrokenTableFatal ==
    (boot.table.exists /\ (~boot.table.readable \/ ~boot.table.json)) =>
        /\ boot.fatal
        /\ ~running

(* C18: on import at time T an entry of the table is placed in the registry,
   with the expiry the table holds, exactly when that expiry is greater than
   T - 604800; older entries, the entries with expiry 0 among them, are
   dropped, and an entry already expired but less than seven days old is
   imported. *)
C18_ImportHorizon ==
    (boot.table.exists /\ boot.table.readable) =>
        \A k \in Keys :
            /\ k \in DOMAIN boot.content <=>
                   /\ k \in DOMAIN boot.table.entries
                   /\ boot.table.entries[k].expiry > boot.time - Horizon
            /\ k \in DOMAIN boot.content =>
                   /\ boot.content[k].expiry = boot.table.entries[k].expiry
                   /\ boot.content[k].url = boot.table.entries[k].url

\* the run began from a table with an entry already expired but inside the
\* horizon, which was imported
C18_Witness ==
    \E k \in DOMAIN boot.content :
        /\ boot.table.json
        /\ boot.content[k].expiry < boot.time
        /\ boot.content[k].expiry = boot.time - Horizon + 1
        /\ running

\* the step sets the expiry of one item to now + validity and changes nothing
\* else of the registry
ExpiryUpdateStep ==
    \E k \in DOMAIN content :
        /\ content' = [content EXCEPT ![k].expiry = now + content[k].validity]
        /\ UNCHANGED <<registered, cacheRefresh, apiInit, table, now>>

\* what WriteExpiryFile does in the state, by the dirty flag
WriteGatedByDirty ==
    IF writeExpiry
    THEN /\ WriteExpiryFileOp(TRUE).written
         /\ WriteExpiryFileOp(TRUE).table = ExportTable(content)
         /\ ~WriteExpiryFileOp(TRUE).writeExpiry
         /\ ~WriteExpiryFileOp(FALSE).written
    ELSE \A wok \in BOOLEAN :
             WriteExpiryFileOp(wok) =
                 [table |-> table, writeExpiry |-> FALSE, err |-> Nil,
                  written |-> FALSE, content |-> content]

\* how a step may change the dirty flag and the table file
DirtyFlagStep ==
    /\ table' # table => (writeExpiry /\ ~writeExpiry')
    /\ (~writeExpiry /\ writeExpiry') => ExpiryUpdateStep
    /\ (writeExpiry /\ ~writeExpiry') =>
           (table' = ExportTable(content) /\ UNCHANGED <<content, fs>>)
    /\ (registered' # registered \/ cacheRefresh' # cacheRefresh) =>
           UNCHANGED writeExpiry


(* C20: WriteExpiryFile writes the table file exactly when the dirty flag is
   set and otherwise returns success without touching the file; the flag is
   clear after the import, is set only by a step that updates an expiry
   (ResetExpire, alone or inside a successful GetURL refresh) and is cleared
   only by a successful write; AddURL, AddFile, HasExpired, GetFile and
   SetRefresh leave it as it is. *)
C20_DirtyFlag ==
    /\ Init => ~writeExpiry
    /\ []WriteGatedByDirty
    /\ [][DirtyFlagStep]_vars


\* the run ended with a write of the table that an expiry update made
\* differ from the table the run began with
C20_Witness ==
    /\ ~running
    /\ ~boot.fatal
    /\ ~writeExpiry
    /\ table = ExportTable(content)
    /\ table # boot.table

\* HasExpired of the item with its file present, at time t under either
\* setting of force-refresh, answers the same for the two items
SameExpiredAnswer(i1, i2, t) ==
    \A force \in BOOLEAN :
        Expired(i1, force, TRUE, t) = Expired(i2, force, TRUE, t)

(* C19: when a run whose WriteExpiryFile succeeded is followed by a new cache
   on the same directory, every key of the old registry whose expiry is
   younger than the seven-day horizon has the same expiry in the new registry
   and every key whose expiry is older has no entry; and once such a kept key
   is registered again, HasExpired with the file present answers as it would
   have in the first run at that time. *)
C19_RoundTrip ==
    (boot.restarted /\ ~boot.prevDirty) =>
        \A k \in DOMAIN boot.prev :
            IF boot.prev[k].expiry > boot.time - Horizon
            THEN /\ k \in DOMAIN boot.content
                 /\ boot.content[k].expiry = boot.prev[k].expiry
                 /\ \A r \in Registrations : r[1] = k =>
                        SameExpiredAnswer(
                            RegisterItem(boot.content, k, TRUE, r[2], r[3]),
                            boot.prev[k], boot.time)
            ELSE k \notin DOMAIN boot.content

\* a second run began from the table the first run wrote, the first registry
\* held a key refreshed in that run and a key never refreshed, and the second
\* run registered the kept key again
C19_Witness ==
    /\ boot.restarted
    /\ ~boot.prevDirty
    /\ boot.table = ExportTable(boot.prev)
    /\ running
    /\ \E k \in DOMAIN boot.prev \cap registered, j \in DOMAIN boot.prev :
          /\ boot.prev[k].expiry >= boot.time
          /\ boot.prev[j].expiry = 0
          /\ content[k].expiry = boot.prev[k].expiry

----------------------------------------------------------------------------
\* the run has a cache: NewCacher has returned
Constructed == pc \notin {"start", "failed"}

\* what holds of the table file at every point of a batch run
TableReadOnceFirst ==
    /\ pc = "start" => tableReads = 0 /\ registered = {} /\ content = EmptyRegistry
    /\ Constructed => tableReads = 1
    /\ tableWrites <= 1
    /\ tableWrites = 1 => pc = "done"

\* the table file is read by the construction step only and changes in the
\* last step only
TableTouchedAtEnds ==
    /\ tableReads' # tableReads => pc = "start"
    /\ (table' # table \/ tableWrites' # tableWrites) =>
           pc = "writeExpiry" /\ pc' = "done"

(* C21: in one batch run (mkInventory) that gets its cache, the expiry table
   file is read exactly once, by the construction, before any item is
   registered or queried; it is written at most once, by the last step of the
   run, after every item access; neither a registration nor GetURL nor
   ResetExpire writes the table file. *)
C21_TableReadOnceWrittenLast ==
    /\ []TableReadOnceFirst
    /\ [][TableTouchedAtEnds]_vars

\* a refreshing run at its end: both items registered, the table read once
\* and written once
C21_Witness ==
    /\ pc = "done"
    /\ tableReads = 1
    /\ tableWrites = 1
    /\ registered = BatchKeys
    /\ table = ExportTable(content)

----------------------------------------------------------------------------
\* no two keys of the registry c have the same file path
DistinctPaths(c) ==
    \A k1, k2 \in DOMAIN c : k1 # k2 => c[k1].file # c[k2].file

(* C22: every item of the registry has the file path join(cacheDir, name) of
   the name it was registered with, and no two different keys of the registry
   have the same file path: here for the registry after any AddURL or AddFile
   on a registry that has the property. *)
C22_DistinctPaths ==
    \A k \in Keys, n \in Names, v \in Validities :
        DistinctPaths(content) =>
            /\ AddURLOp(k, n, v)[k].file = JoinPath(cacheDir, n)
            /\ AddFileOp(k, n, v)[k].file = JoinPath(cacheDir, n)
            /\ DistinctPaths(AddURLOp(k, n, v))
            /\ DistinctPaths(AddFileOp(k, n, v))

----------------------------------------------------------------------------
\* what the import brings into the registry has a refresh in its history
ImportedNonZero ==
    \A k \in DOMAIN content :
        content[k].expiry = 0 => k \notin DOMAIN boot.content

\* a key enters the registry with expiry 0, and an expiry changes only by a
\* refresh, to now plus the validity, which is not 0
ExpiryZeroStep ==
    \A k \in DOMAIN content' :
        IF k \notin DOMAIN content
        THEN content'[k].expiry = 0
        ELSE content'[k].expiry # content[k].expiry =>
                 /\ content'[k].expiry = now + content[k].validity
                 /\ content'[k].expiry # 0
                 /\ writeExpiry'

(* C23: the expiry of an item is 0 exactly when the item has no successful
   refresh in the visible history: what NewCacher imports has an expiry other
   than 0, a key registered in this run (never persisted, or pruned on import)
   starts with expiry 0, the expiry stays as it is until a refresh, and a
   refresh sets an expiry other than 0. *)
C23_ZeroMeansNeverRefreshed ==
    /\ Init => \A k \in DOMAIN content : content[k].expiry # 0
    /\ []ImportedNonZero
    /\ [][ExpiryZeroStep]_vars

\* both keys were pruned on import and registered again; a was left alone
\* and b has been refreshed since
C23_Witness ==
    /\ boot.table = TableOf(DroppedEntries)
    /\ registered = Keys
    /\ content["a"].expiry = 0
    /\ content["b"].expiry # 0

----------------------------------------------------------------------------
\* GetURL(k) in this state has to go to the fetcher: the item is a URL and it
\* has expired, or is forced, or its file cannot be read
NeedsFetch(k) ==
    /\ k \in DOMAIN content
    /\ ~KindMismatch(content[k], TRUE)
    /\ HasExpiredOp(k).err = Nil
    /\ HasExpiredOp(k).refresh \/ ~FileReadable(content[k].file)

(* C24: the cache never retries: one GetURL call invokes the fetcher at most
   once, whether the item has expired, is forced or is fresh with an
   unreadable file, and a failure of the fetcher ends the call with an error
   at once, after that one invocation. *)
C24_NoRetry ==
    \A k \in Keys, f \in FetchOutcomes :
        LET r == GetURLOp(k, f)
            v == GetURLVanishOp(k, f)
        IN /\ r.fetches \in {0, 1}
           /\ r.fetches = 1 <=> NeedsFetch(k) /\ apiInit
           /\ f = FetchFail /\ r.fetches = 1 => r.err = errFetch
           /\ (/\ k \in DOMAIN content
               /\ ~KindMismatch(content[k], TRUE)
               /\ ~HasExpiredOp(k).refresh) =>

                  /\ v.fetches \in {0, 1}
                  /\ f = FetchFail /\ v.fetches = 1 => v.err = errFetch


\* a fresh URL item whose file cannot be read and a fetcher that fails:
\* one invocation, then the error
C24_Witness ==
    /\ apiInit
    /\ "a" \in registered
    /\ ~HasExpiredOp("a").refresh
    /\ ~FileReadable(content["a"].file)
    /\ GetURLOp("a", FetchFail).fetches = 1
    /\ GetURLOp("a", FetchFail).err = errFetch

----------------------------------------------------------------------------
(* C25: when the fetcher fails, the error GetURL returns to its caller is the
   error of the fetcher itself, the same error value. *)
C25_FetcherErrorVerbatim ==
    \A k \in Keys :
        GetURLOp(k, FetchFail).fetches = 1 =>
            GetURLOp(k, FetchFail).err = FetchFail

----------------------------------------------------------------------------
\* the document d lists the registry c: every key once, under its kind, with
\* its expiry, and no other key
ListsRegistry(d, c) ==
    /\ DOMAIN d.urls \cup DOMAIN d.files = DOMAIN c
    /\ DOMAIN d.urls \cap DOMAIN d.files = {}
    /\ \A k \in DOMAIN c :
          IF c[k].url
          THEN k \in DOMAIN d.urls /\ d.urls[k] = c[k].expiry
          ELSE k \in DOMAIN d.files /\ d.files[k] = c[k].expiry

(* C26: a table file written by WriteExpiryFile holds a write_time and the
   whole key-to-expiry map of the registry: every key of the registry once,
   under "urls" if it is a URL item and under "files" if it is a file item,
   with the expiry it has in memory, and no key that is not in the registry. *)
C26_TableListsRegistry ==
    LET w == WriteExpiryFileOp(TRUE) IN
    w.written =>
        /\ "write_time" \in DOMAIN w.doc
        /\ w.doc.write_time = now
        /\ ListsRegistry(w.doc, content)
        /\ w.table = DocumentTable(w.doc)

\* a dirty registry with an item of each kind, one of them refreshed
C26_Witness ==
    /\ writeExpiry
    /\ registered = Keys
    /\ content["a"].url /\ ~content["b"].url
    /\ content["b"].expiry # 0
    /\ WriteExpiryFileOp(TRUE).written
    /\ DOMAIN WriteExpiryFileOp(TRUE).doc.urls = {"a"}
    /\ DOMAIN WriteExpiryFileOp(TRUE).doc.files = {"b"}

----------------------------------------------------------------------------
\* the step that is the call of NewCacher
ConstructionStep == pc = "start" /\ pc' # "start"

\* NewCacher leaves the content files and the table file as they are, and
\* when it returns the directory is there
ConstructionFrame ==
    ConstructionStep =>
        /\ fs' = fs
        /\ table' = table
        /\ pc' # "failed" => dirExists'
        /\ pc' = "failed" => ~dirExists /\ ~dirExists'

(* C27: NewCacher on a directory path that does not exist creates the
   directory, so the directory exists once the construction has returned;
   the construction creates or changes nothing else on disk, neither a
   content file nor the table file. *)
C27_ConstructionMakesDirOnly ==
    /\ [](Constructed => dirExists)
    /\ [][ConstructionFrame]_vars

\* the run began without the directory; NewCacher has returned, the directory
\* is there and it is empty
C27_Witness ==
    /\ ~args.dirThere
    /\ pc = "setRefresh"
    /\ dirExists
    /\ table = NoTable
    /\ \A p \in Paths : fs[p] = Missing
    /\ tableReads = 1

----------------------------------------------------------------------------
(* C28: ParseFlags chooses the configuration path by precedence: a --config
   flag that is not empty is always used; without one, a SATINVCFG variable
   that is not empty is used; without either, /etc/ansible/satinv.yml. *)
C28_ConfigPrecedence ==
    result.fn = "ParseFlags" =>
        LET flagGiven == args.config \notin {NotSet, ""}
            envGiven == args.env \notin {NotSet, ""}
        IN /\ flagGiven => result.config = args.config
           /\ ~flagGiven /\ envGiven => result.config = args.env
           /\ ~flagGiven /\ ~envGiven => result.config = "/etc/ansible/satinv.yml"

\* flag and variable both name a file, and they differ: the flag wins
C28_Witness ==
    /\ result.fn = "ParseFlags"
    /\ args.config = "/tmp/c.yml"
    /\ args.env = "/etc/promsat/fake.yml"
    /\ result.config = "/tmp/c.yml"

----------------------------------------------------------------------------
\* the subnet string s denotes a range that holds the address a: both are
\* well formed and a has the leading s.len bits of s.base
SubnetHolds(s, a) ==
    /\ s.ok
    /\ a.ok
    /\ a.addr \div 2^(AddrBits - s.len) = s.base \div 2^(AddrBits - s.len)

(* C29: ParseCIDRs(address) returns exactly the names of the registered
   ranges that contain the address: a name is in the result if and only if
   its subnet contains the address, for every address and every set of named
   ranges. *)
C29_MembersAreContainingRanges ==
    result.fn = "ParseCIDRs" =>
        /\ ~result.panic
        /\ \A name \in RangeNames :
               name \in result.memberOf <=>
                   /\ name \in DOMAIN args.cidrs
                   /\ SubnetHolds(args.cidrs[name], args.addr)

\* the same for the maps whose subnets all parse
ValidRangesMembership ==
    (/\ result.fn = "ParseCIDRs"
     /\ \A name \in DOMAIN args.cidrs : args.cidrs[name].ok)
    => /\ ~result.panic
       /\ \A name \in RangeNames :
              name \in result.memberOf <=>
                  /\ name \in DOMAIN args.cidrs
                  /\ SubnetHolds(args.cidrs[name], args.addr)

----------------------------------------------------------------------------
\* the host has an address, ipv4 or ipv6
HasAddress(host) == host.ip.s # "" \/ host.ip6.s # ""

\* the rule of the claim for a check-in limit
AddressSubscriptionCheckin(host, limit) ==
    /\ HasAddress(host)
    /\ host.sub.exists /\ host.sub.n = 0
    /\ host.checkin.exists /\ host.checkin.parses /\ host.checkin.t >= limit

(* C30 as stated: a host is added to the valid inventory group if and only if
   it has an IP address (ipv4 or ipv6), has a valid subscription
   (subscription_status 0), and its last check-in is within the configured
   validity period. *)
C30_Original ==
    result.fn = "hgValid" =>
        (result.valid <=> AddressSubscriptionCheckin(args.host, oldestValidTime))

\* the older hgSatValid follows the rule as stated
OlderRuleAsStated ==
    result.fn = "hgSatValid" =>
        (result.valid <=>
            AddressSubscriptionCheckin(args.host, oldestSatValidTime))

(* C30: a host is added to the valid inventory group if and only if it is
   excluded neither by name nor by regular expression, has an operating
   system (operatingsystem_id present and not 0), has a subscription_status
   that is 0, or any subscription_status when include_unlicensed is set, and
   has a last check-in that parses and is not before now less the valid
   hours; whether the host has an IP address plays no part. *)
C30_ValidRule ==
    result.fn = "hgValid" =>
        LET host == args.host IN
        /\ result.valid <=>
              /\ ~host.listed /\ ~host.matched
              /\ host.osid.exists /\ host.osid.n # 0
              /\ host.sub.exists /\ (host.sub.n = 0 \/ args.unlicensed)
              /\ host.checkin.exists /\ host.checkin.parses
              /\ host.checkin.t >= oldestValidTime
        /\ \A ip, ip6 \in IPFields :
              hgValid([host EXCEPT !.ip = ip, !.ip6 = ip6], args.unlicensed)
                  = result.valid

\* a host without any address and with all the rest is in the group
C30_Witness ==
    /\ result.fn = "hgValid"
    /\ result.valid
    /\ ~HasAddress(args.host)
    /\ args.host.checkin.t = oldestValidTime
    /\ ~args.unlicensed

----------------------------------------------------------------------------
\* the registry a run held when it exported, and what it had imported
RegistryOf(run) == IF run = "main" THEN content ELSE peer.content
ImportedBy(run) == IF run = "main" THEN boot.content ELSE peer.imported

\* the run refreshed k: the expiry it holds is not the one it started with
RefreshedBy(run, k) ==
    /\ k \in DOMAIN RegistryOf(run)
    /\ RegistryOf(run)[k].expiry # 0
    /\ k \in DOMAIN ImportedBy(run) =>
           ImportedBy(run)[k].expiry # RegistryOf(run)[k].expiry

\* the table is the registry of the run that exported last, whatever the
\* other run had written
LastExporterWins ==
    exports # <<>> => table = ExportTable(RegistryOf(exports[Len(exports)]))

\* after both exports, an expiry only the first exporter refreshed is not in
\* the table: the key is gone, or has the expiry the last exporter imported,
\* or the 0 of the last exporter's registration
FirstExportLost ==
    Len(exports) = 2 =>
        \A k \in Keys :
            RefreshedBy(exports[1], k) /\ ~RefreshedBy(exports[2], k) =>
                \/ k \notin DOMAIN table.entries
                \/ /\ k \in DOMAIN ImportedBy(exports[2])
                   /\ table.entries[k].expiry = ImportedBy(exports[2])[k].expiry
                \/ table.entries[k].expiry = 0

\* each run reads the table once, when it starts
ImportOnceAtStart ==
    /\ tableReads = 1
    /\ peer.phase # "idle" => peer.reads = 1

\* what a run imported stays what it was
ImportStep ==
    /\ boot' = boot
    /\ peer.phase # "idle" =>
           peer'.imported = peer.imported /\ peer'.reads = peer.reads

(* C31: two batch runs interleaved on one cache directory do not merge the
   expiry table: each imports it once, when it starts, and after both have
   exported the table file is the registry of the run that exported last, so
   an expiry only the first exporter refreshed is lost, or is back at the
   value the last exporter imported. *)
C31_NoMerge ==
    /\ [](LastExporterWins /\ FirstExportLost /\ ImportOnceAtStart)
    /\ [][ImportStep]_vars

\* both runs imported the old entry of a; the first refreshed a and exported,
\* the second refreshed only b and exported: a is back at its old expiry
C31_Witness ==
    /\ exports = <<"main", "peer">>
    /\ "a" \in DOMAIN content
    /\ content["a"].expiry >= StartTime
    /\ "a" \in DOMAIN peer.imported
    /\ "a" \in DOMAIN table.entries
    /\ table.entries["a"].expiry = StartTime - Horizon + 1
    /\ "b" \in DOMAIN table.entries

----------------------------------------------------------------------------
(* C32: HasExpired is a pure query: for every key and in every state it
   changes no item's kind, file path, validity or expiry, changes neither
   the dirty flag nor the force flag, and creates, changes or deletes no
   file. *)
C32_HasExpiredPure ==
    \A k \in Keys :
        LET p == HasExpiredPost(k) IN
        /\ DOMAIN p.content = DOMAIN content
        /\ \A x \in DOMAIN content :
              /\ p.content[x].url = content[x].url
              /\ p.content[x].file = content[x].file
              /\ p.content[x].validity = content[x].validity
              /\ p.content[x].expiry = content[x].expiry
        /\ p.writeExpiry = writeExpiry
        /\ p.cacheRefresh = cacheRefresh
        /\ p.fs = fs

\* HasExpired reports a forced refresh of a registered item whose file is
\* missing, with the dirty flag set, and leaves all of it as it is
C32_Witness ==
    /\ cacheRefresh
    /\ writeExpiry
    /\ "a" \in registered
    /\ ~FileExists(content["a"].file)
    /\ HasExpiredOp("a").refresh
    /\ HasExpiredPost("a").cacheRefresh

----------------------------------------------------------------------------
\* the registered URL items
RemoteItems == {k \in registered : content[k].url}

(* C33 as stated: once SetRefresh has been called, every GetURL on a
   registered Remote item invokes the fetcher. *)
C33_Original ==
    forced =>
        \A k \in RemoteItems, f \in FetchOutcomes : GetURLOp(k, f).fetches = 1

\* under the force flag GetURL never answers from the file: it asks the
\* fetcher once, or fails because the API was never initialised
ForcedGoesToFetcher ==
    forced =>
        /\ cacheRefresh
        /\ \A k \in RemoteItems, f \in FetchOutcomes :
              LET r == GetURLOp(k, f) IN
              /\ apiInit => r.fetches = 1
              /\ ~apiInit => r.fetches = 0 /\ r.err = errAPIInit
              /\ r.err = Nil => r.fetches = 1

(* C33: the force-refresh flag is sticky: no operation clears it once
   SetRefresh has been called, so for the rest of the run no GetURL on a
   registered Remote item serves the cached file, a GetURL right after a
   successful refresh of the same key included: each invokes the fetcher,
   or, when InitAPI was never called, returns errAPIInit without invoking
   it. *)
C33_ForceSticky ==
    /\ []ForcedGoesToFetcher
    /\ [][cacheRefresh => cacheRefresh']_vars

\* the flag is set, GetURL has just refreshed a, its file is there and not
\* stale, and the next GetURL goes to the fetcher again
C33_Witness ==
    /\ forced
    /\ apiInit
    /\ "a" \in RemoteItems
    /\ freshUntil["a"] >= now
    /\ content["a"].expiry >= now
    /\ FileReadable(content["a"].file)
    /\ GetURLOp("a", "c1").fetches = 1

----------------------------------------------------------------------------
\* the keys this run imported and has not registered
ImportedOnly == DOMAIN boot.content \ registered

(* C34: an entry imported from the persisted table whose key is never
   registered during the run stays in the registry with the expiry and the
   kind it was imported with, and a WriteExpiryFile of the run writes it
   back as it was. *)
C34_ImportedEntryKept ==
    \A k \in ImportedOnly :
        /\ k \in DOMAIN content
        /\ content[k].expiry = boot.content[k].expiry
        /\ content[k].url = boot.content[k].url
        /\ WriteExpiryFileOp(TRUE).written =>
               /\ k \in DOMAIN WriteExpiryFileOp(TRUE).table.entries
               /\ WriteExpiryFileOp(TRUE).table.entries[k] = boot.table.entries[k]

----------------------------------------------------------------------------
\* while the run has not written the table, the file is the one NewCacher
\* read, and a run started now would import from it, for every key it takes,
\* the expiry that table records
TableAsFound ==
    tableWrites = 0 =>
        /\ table = boot.table
        /\ \A k \in DOMAIN importExpiry(table, now) :
              importExpiry(table, now)[k].expiry = boot.table.entries[k].expiry

\* the table file changes only by a WriteExpiryFile that succeeds
TableChangesByWrite ==
    table' # table =>
        /\ writeExpiry /\ ~writeExpiry'
        /\ tableWrites' = tableWrites + 1
        /\ table' = ExportTable(content)

(* C35: the expiry changes of a run become durable only through a
   WriteExpiryFile that succeeds: when the process stops after a successful
   GetURL refresh and before WriteExpiryFile, the table file is as it was,
   and the next run imports for every key the expiry the previous table
   records, so the refreshed item is judged by its old expiry. *)
C35_DurableOnlyByWrite ==
    /\ []TableAsFound
    /\ [][TableChangesByWrite]_vars

\* GetURL has refreshed a, whose entry in the table is older; nothing is
\* written yet and a run started now would import the old expiry
C35_Witness ==
    /\ "a" \in registered
    /\ freshUntil["a"] # None
    /\ writeExpiry
    /\ tableWrites = 0
    /\ "a" \in DOMAIN importExpiry(table, now)
    /\ importExpiry(table, now)["a"].expiry # content["a"].expiry
    /\ importExpiry(table, now)["a"].expiry = boot.table.entries["a"].expiry

----------------------------------------------------------------------------
\* GetURL(k) fetches a body and cannot write it to the item's file
WriteFails(k, f) ==
    /\ NeedsFetch(k)
    /\ apiInit
    /\ f \in FetchBodies
    /\ ~FileWritable(content[k].file)

(* C36: when writing the fetched content to the item's file fails during a
   GetURL refresh, GetURL returns an error and the expiry of the item and
   the dirty flag are as before, so the item is never marked fresh for
   content that was not written. *)
C36_WriteFailureKeepsExpiry ==
    \A k \in Keys, f \in FetchOutcomes :
        LET r == GetURLOp(k, f) IN
        /\ WriteFails(k, f) =>
              /\ r.err = errWrite
              /\ r.fetches = 1
              /\ r.content = content
              /\ r.writeExpiry = writeExpiry
        /\ r.err = errWrite => WriteFails(k, f)


\* a registered URL item has expired, its file is locked and the registry is
\* clean: the fetch succeeds, the write fails
C36_Witness ==
    /\ apiInit
    /\ ~writeExpiry
    /\ "a" \in RemoteItems
    /\ content["a"].expiry = 0
    /\ fs[content["a"].file] = Locked
    /\ WriteFails("a", "c1")
    /\ GetURLOp("a", "c1").err = errWrite

----------------------------------------------------------------------------
(* C37: when writing the table file fails, WriteExpiryFile returns the error
   and the dirty flag stays set, so a later WriteExpiryFile attempts the
   write again; a write, failed or successful, leaves the registry in memory
   as it was. *)
C37_FailedWriteStaysDirty ==
    LET failed == WriteExpiryFileOp(FALSE)
        done == WriteExpiryFileOp(TRUE)
    IN /\ failed.content = content
       /\ done.content = content
       /\ writeExpiry =>
             /\ failed.err = errWrite
             /\ ~failed.written
             /\ failed.writeExpiry
             /\ failed.table = table
             /\ done.written /\ done.err = Nil /\ ~done.writeExpiry
       /\ ~writeExpiry => failed.err = Nil /\ ~failed.written /\ ~done.written

\* a dirty registry with a refreshed item over a table that does not have
\* it: the write fails, and the next attempt writes
C37_Witness ==
    /\ writeExpiry
    /\ "b" \in registered
    /\ content["b"].expiry # 0
    /\ WriteExpiryFileOp(FALSE).err = errWrite
    /\ WriteExpiryFileOp(FALSE).writeExpiry
    /\ WriteExpiryFileOp(TRUE).table # table

----------------------------------------------------------------------------
InventoryPath == JoinPath(cacheDir, InventoryFile)

\* HasExpired has answered that the inventory need not be rebuilt
CachedRun == result.fn = "mkInventory" /\ result.branch = "cached"

\* the run is over, by its last statement or by a fatal error
RunOver == pc \in {"done", "exit"}

\* the fetcher, the registry and the table in a run that uses the cached file
CachedRunQuiet ==
    CachedRun =>
        /\ ~apiInit
        /\ result.fetches = 0
        /\ registered = {InventoryKey}
        /\ tableWrites = 0
        /\ table = boot.table
        /\ ~writeExpiry

\* the original statement: such a run prints the cached file
C38_Original ==
    /\ CachedRunQuiet
    /\ CachedRun /\ RunOver => result.out # "" /\ result.out = result.json

\* the steps of a run that uses the cached file: the branch is taken exactly
\* when nothing forces a refresh, the file is there and the expiry has not
\* passed; inv.json is what GetFile reads; Stdout gets inv.json
CachedRunSteps ==
    /\ pc = "hasExpired" /\ pc' # "hasExpired" =>
           (pc' = "getFile" <=>
               /\ ~cacheRefresh
               /\ FileExists(InventoryPath)
               /\ now <= content[InventoryKey].expiry)
    /\ pc = "getFile" /\ pc' # "getFile" =>
           IF FileReadable(InventoryPath) /\ ~content[InventoryKey].url
           THEN pc' = "print" /\ result'.json = fs[InventoryPath]
           ELSE pc' = "exit" /\ result'.json = "" /\ ~running'
    /\ CachedRun /\ pc = "print" /\ pc' = "writeExpiry" =>
           result'.out = IF args.list THEN result.json ELSE ""
    /\ CachedRun /\ pc = "writeExpiry" /\ pc' # "writeExpiry" =>
           pc' = "done" /\ table' = table /\ tableWrites' = 0

(* C38: in a batch run where the inventory item is not expired (file present,
   expiry not elapsed, no forced refresh), mkInventory never initialises or
   invokes the fetcher, registers no URL item and does not write the expiry
   table; inv.json is exactly the bytes GetFile reads from the cached
   inventory file, and they go to Stdout when the list flag was given:
   without the flag nothing is printed, and when GetFile fails the run ends
   in a fatal error with nothing printed. *)
C38_CachedRun ==
    /\ [](CachedRunQuiet /\
          (CachedRun /\ result.out # "" => args.list /\ result.out = result.json))
    /\ [][CachedRunSteps]_vars

\* a run with the list flag has ended after printing the cached inventory
C38_Witness ==
    /\ CachedRun
    /\ pc = "done"
    /\ args.list
    /\ result.out = "p1"
    /\ result.out = fs[InventoryPath]
    /\ table = TableOf(FreshEntries)
    /\ tableWrites = 0
    /\ ~apiInit

----------------------------------------------------------------------------
\* HasExpired has answered that the inventory must be rebuilt
RebuildRun == result.fn = "mkInventory" /\ result.branch = "rebuild"

\* the expiry of the inventory item in the registry c, 0 without the item
InventoryExpiry(c) ==
    IF InventoryKey \in DOMAIN c THEN c[InventoryKey].expiry ELSE 0

\* where a rebuilding run stands: the inventory is written after both fetches
\* that must succeed, and ResetExpire comes after the write
RebuildOrder ==
    /\ result.fn = "mkInventory" /\ result.branch # "rebuild" =>
           ~result.stored /\ ~result.hosts /\ ~result.listing
    /\ RebuildRun /\ pc = "writeInventory" =>
           result.hosts /\ result.listing /\ result.collection # "none"
    /\ RebuildRun /\ result.stored =>
           result.hosts /\ result.listing /\ result.collection # "none"
    /\ RebuildRun /\ pc = "resetExpire" => result.stored
    /\ RebuildRun /\ InventoryExpiry(content) # InventoryExpiry(boot.content) =>
           result.stored
    /\ RebuildRun /\ tableWrites > 0 => result.stored

\* a rebuilding run that one of the three failures has ended
RebuildStopped ==
    RebuildRun /\ result.fatal \in {"hosts", "listing", "write"} =>
        /\ ~running
        /\ pc = "exit"
        /\ InventoryExpiry(content) = InventoryExpiry(boot.content)
        /\ tableWrites = 0
        /\ table = boot.table
        /\ result.out = ""

\* the steps of a rebuilding run
RebuildSteps ==
    /\ InventoryExpiry(content') # InventoryExpiry(content) =>
           \/ pc = "start"
           \/ pc = "resetExpire" /\ result.stored /\ pc' = "print"
    /\ pc = "resetExpire" /\ pc' # "resetExpire" =>
           InventoryExpiry(content') = now + content[InventoryKey].validity
    /\ pc = "getHosts" /\ pc' # "getHosts" =>
           \/ pc' = "addCollections" /\ result'.hosts /\ running'
           \/ pc' = "exit" /\ ~result'.hosts /\ result'.fatal = "hosts"
    /\ pc = "getCollections" /\ pc' # "getCollections" =>
           \/ pc' = "addCollection" /\ result'.listing /\ running'
           \/ pc' = "exit" /\ ~result'.listing /\ result'.fatal = "listing"
    /\ pc = "getCollection" /\ pc' # "getCollection" =>
           /\ pc' = "writeInventory"
           /\ running'
           /\ result'.fatal = "none"
           /\ result'.collection \in {"got", "skipped"}
    /\ pc = "writeInventory" /\ pc' # "writeInventory" =>
           IF FileWritable(InventoryPath)
           THEN /\ pc' = "resetExpire" /\ result'.stored
                /\ fs'[InventoryPath] = result'.json
           ELSE /\ pc' = "exit" /\ ~result'.stored /\ result'.fatal = "write"
                /\ fs' = fs

(* C39: in a batch run that rebuilds the inventory, the expiry of the
   inventory item is reset only after the inventory file has been written,
   and the file is written only after the fetch of the hosts and the fetch of
   the listing of host collections have succeeded; a failed fetch of one
   host collection is skipped and the run goes on.  When the hosts fetch, the
   listing fetch or the write of the inventory file fails the run stops, the
   expiry of the inventory item is as it was and the expiry table has not
   been written. *)
C39_RebuildOrder ==
    /\ [](RebuildOrder /\ RebuildStopped)
    /\ [][RebuildSteps]_vars

\* a rebuilding run has ended: the hosts and the listing were fetched, the one
\* collection was skipped, and the inventory was written before its expiry
C39_Witness ==
    /\ RebuildRun
    /\ pc = "done"
    /\ result.hosts /\ result.listing
    /\ result.collection = "skipped"
    /\ result.stored
    /\ result.fetches = 2
    /\ InventoryExpiry(content) = now + MaxValidity
    /\ tableWrites = 1

TypeOK ==
    /\ DOMAIN content \subseteq Keys
    /\ \A k \in DOMAIN content :
          /\ content[k].url \in BOOLEAN
          /\ content[k].expiry \in Nat
          /\ content[k].file \in Paths \cup {""}
          /\ content[k].validity \in Validities
    /\ now \in Times
    /\ registered \subseteq DOMAIN content

====
